---- MODULE Spec2Model ----
(***************************************************************************)
(* Naomi crypto assistant (AsthaBhaskar/AWScrypto): the intent/entity      *)
(* extractor and the synthesis orchestrator of crypto_assistant.py (the    *)
(* CLI loop) and api_main.py (the /conversation and /analysis endpoints).  *)
(*                                                                         *)
(* Utterances are TLA+ strings; the regular expressions of the source are  *)
(* evaluated character by character with Len, SubSeq, Head, Tail and \o.   *)
(* External collaborators (search, coin-detail, flow, social and           *)
(* text-completion providers, the content-safety filter) answer            *)
(* nondeterministically from small sets of outcomes.                       *)
(***************************************************************************)
EXTENDS Integers, Sequences, FiniteSets, TLC

(***************************************************************************)
(* Strings                                                                 *)
(***************************************************************************)
Null == "<null>"

LowerLetters ==
    {"a","b","c","d","e","f","g","h","i","j","k","l","m",
     "n","o","p","q","r","s","t","u","v","w","x","y","z"}

UpperLetters ==
    {"A","B","C","D","E","F","G","H","I","J","K","L","M",
     "N","O","P","Q","R","S","T","U","V","W","X","Y","Z"}

Digits == {"0","1","2","3","4","5","6","7","8","9"}

\* [a-zA-Z0-9]
AlnumChars == LowerLetters \cup UpperLetters \cup Digits

\* \w
WordChars == AlnumChars \cup {"_"}

\* [a-zA-Z0-9$ ]
CoinChars == AlnumChars \cup {"$", " "}

\* [a-zA-Z0-9, $]
CoinListChars == CoinChars \cup {","}

\* [a-zA-Z0-9, ]
PlainListChars == AlnumChars \cup {",", " "}

LowerMap ==
    "A" :> "a" @@ "B" :> "b" @@ "C" :> "c" @@ "D" :> "d" @@ "E" :> "e" @@
    "F" :> "f" @@ "G" :> "g" @@ "H" :> "h" @@ "I" :> "i" @@ "J" :> "j" @@
    "K" :> "k" @@ "L" :> "l" @@ "M" :> "m" @@ "N" :> "n" @@ "O" :> "o" @@
    "P" :> "p" @@ "Q" :> "q" @@ "R" :> "r" @@ "S" :> "s" @@ "T" :> "t" @@
    "U" :> "u" @@ "V" :> "v" @@ "W" :> "w" @@ "X" :> "x" @@ "Y" :> "y" @@
    "Z" :> "z"

\* F(v) with v computed once, however often F reads it
Bind(v, F(_)) == CHOOSE y \in {F(x) : x \in {v}} : TRUE

CharAt(s, i) == SubSeq(s, i, i)

RECURSIVE Lower(_)
\* str.lower()
Lower(s) ==
    IF s = "" THEN ""
    ELSE (IF Head(s) \in UpperLetters THEN LowerMap[Head(s)] ELSE Head(s))
         \o Lower(Tail(s))

RECURSIVE LStrip(_)
LStrip(s) == IF s # "" /\ Head(s) = " " THEN LStrip(Tail(s)) ELSE s

RECURSIVE RStrip(_)
RStrip(s) ==
    IF s # "" /\ CharAt(s, Len(s)) = " " THEN RStrip(SubSeq(s, 1, Len(s) - 1))
    ELSE s

\* str.strip()
Strip(s) == RStrip(LStrip(s))

\* the literal lit occurs in s at position i
MatchAt(s, i, lit) ==
    /\ i >= 1
    /\ i + Len(lit) - 1 <= Len(s)
    /\ SubSeq(s, i, i + Len(lit) - 1) = lit

\* `lit in s`, re.search(lit, s) for a literal pattern
Contains(s, lit) == \E i \in 1..(Len(s) + 1) : MatchAt(s, i, lit)

\* positions at which the literal occurs
Occurrences(s, lit) == {i \in 1..(Len(s) + 1) : MatchAt(s, i, lit)}

Min(S) == CHOOSE x \in S : \A y \in S : x <= y

Max(S) == CHOOSE x \in S : \A y \in S : x >= y

\* the character at position i is a word character (\w); outside s it is not
IsWordAt(s, i) == i >= 1 /\ i <= Len(s) /\ CharAt(s, i) \in WordChars

\* \b between positions i and i+1
BoundaryAfter(s, i) == IsWordAt(s, i) # IsWordAt(s, i + 1)

\* re.match(r"^lit\b", s) / re.search(r"^lit\b", s)
StartsWithWord(s, lit) == MatchAt(s, 1, lit) /\ BoundaryAfter(s, Len(lit))

\* length of the longest run of characters of class cls starting at i
RECURSIVE RunLen(_, _, _)
RunLen(s, i, cls) ==
    IF i <= Len(s) /\ CharAt(s, i) \in cls THEN 1 + RunLen(s, i + 1, cls)
    ELSE 0

\* the longest run of characters of class cls starting at i  ([cls]* at i)
Run(s, i, cls) == SubSeq(s, i, i + RunLen(s, i, cls) - 1)

RECURSIVE TokensFrom(_, _, _)
\* re.findall(r"\b[a-zA-Z0-9]{n,}\b", s): the maximal alphanumeric runs of
\* at least n characters that are delimited by word boundaries, in order
TokensFrom(s, i, n) ==
    IF i > Len(s) THEN <<>>
    ELSE IF CharAt(s, i) \notin AlnumChars \/ IsWordAt(s, i - 1)
         THEN TokensFrom(s, i + 1, n)
    ELSE LET k == RunLen(s, i, AlnumChars)
         IN  IF k >= n /\ ~IsWordAt(s, i + k)
             THEN <<SubSeq(s, i, i + k - 1)>> \o TokensFrom(s, i + k, n)
             ELSE TokensFrom(s, i + k, n)

Words3(s) == TokensFrom(s, 1, 3)

RECURSIVE DollarFrom(_, _, _)
\* re.findall(r"\$([cls]+)", s)
DollarFrom(s, i, cls) ==
    IF i > Len(s) THEN <<>>
    ELSE IF CharAt(s, i) = "$" /\ RunLen(s, i + 1, cls) > 0
         THEN <<Run(s, i + 1, cls)>>
              \o DollarFrom(s, i + 1 + RunLen(s, i + 1, cls), cls)
    ELSE DollarFrom(s, i + 1, cls)

\* re.findall(r"\$([a-zA-Z0-9]+)", s)
DollarSymbols(s) == DollarFrom(s, 1, AlnumChars)

Range(f) == {f[i] : i \in DOMAIN f}

RECURSIVE SplitOn(_, _)
\* split s on the first-to-last occurrences of any separator of seps
\* (re.split with an alternation of literals tried in the order of seps)
SplitOn(s, seps) ==
    LET hits == {i \in 1..Len(s) : \E k \in DOMAIN seps : MatchAt(s, i, seps[k])}
    IN  IF hits = {} THEN <<s>>
        ELSE LET i == Min(hits)
                 k == Min({j \in DOMAIN seps : MatchAt(s, i, seps[j])})
             IN  <<SubSeq(s, 1, i - 1)>>
                 \o SplitOn(SubSeq(s, i + Len(seps[k]), Len(s)), seps)

\* re.sub(r"[?.!,]$", "", s)
DropTrailingPunct(s) ==
    IF s # "" /\ CharAt(s, Len(s)) \in {"?", ".", "!", ","}
    THEN SubSeq(s, 1, Len(s) - 1) ELSE s

\* re.sub(r"[^a-zA-Z0-9]", "", s)
RECURSIVE OnlyAlnum(_)
OnlyAlnum(s) ==
    IF s = "" THEN ""
    ELSE (IF Head(s) \in AlnumChars THEN Head(s) ELSE "") \o OnlyAlnum(Tail(s))

(***************************************************************************)
(* crypto_assistant.py: is_greeting                                        *)
(***************************************************************************)
\* is_greeting: greeting_patterns, each r"^...\b" with the anchors dropped
greeting_patterns ==
    <<
        "hi", "hello", "hey", "sup", "what's up", "whats up", "howdy",
        "yo", "greetings", "good morning", "good afternoon",
        "good evening", "gm", "gn", "good night", "how are you",
        "how's it going", "how are things", "how have you been",
        "how's life", "how's everything", "how's your day",
        "how's your week", "how's your morning", "how's your evening",
        "what's new", "what's happening", "what's good", "what's cracking",
        "what's poppin", "yo", "oi", "hola", "bonjour", "ciao"
    >>

\* is_greeting: the exact short greetings
short_greetings ==
    {
        "hi", "hello", "hey", "gm", "gn", "yo", "sup", "hola", "oi",
        "bonjour", "ciao"
    }


\* a faulty is_greeting that keeps the exact short greetings and overlooks
\* the patterns: with it a greeting sentence is taken for a question
is_greeting_exact_only(user_input) ==
    Strip(Lower(user_input)) \in short_greetings

\* is_greeting(user_input)
is_greeting(user_input) ==
    LET user_input_lower == Strip(Lower(user_input))
    IN  \/ \E k \in DOMAIN greeting_patterns :
               StartsWithWord(user_input_lower, greeting_patterns[k])
        \/ user_input_lower \in short_greetings

(***************************************************************************)
(* crypto_assistant.py: extract_intents_and_coins                          *)
(***************************************************************************)
NoMatch == [matched |-> FALSE, last |-> Null]

\* re.search(r"LIT([cls]+)", s) for the alternatives lits of LIT in regex
\* order: leftmost match, first alternative; last is the captured group
LitGroup(s, lits, cls) ==
    LET ok(i, k) == MatchAt(s, i, lits[k]) /\ RunLen(s, i + Len(lits[k]), cls) >= 1
        hits == {i \in 1..Len(s) : \E k \in DOMAIN lits : ok(i, k)}
    IN  IF hits = {} THEN NoMatch
        ELSE LET i == Min(hits)
                 k == Min({j \in DOMAIN lits : ok(i, j)})
             IN  [matched |-> TRUE, last |-> Run(s, i + Len(lits[k]), cls)]

\* re.search(r"LIT([cls]+)?", s): the trailing group is optional and does
\* not participate (None) when no character of the class follows
LitOptGroup(s, lits, cls) ==
    LET hits == {i \in 1..Len(s) : \E k \in DOMAIN lits : MatchAt(s, i, lits[k])}
    IN  IF hits = {} THEN NoMatch
        ELSE LET i == Min(hits)
                 k == Min({j \in DOMAIN lits : MatchAt(s, i, lits[j])})
                 g == Run(s, i + Len(lits[k]), cls)
             IN  [matched |-> TRUE, last |-> IF g = "" THEN Null ELSE g]

\* re.search(r"LIT([cls]+)TAIL", s): the group is greedy and gives back
\* characters until TAIL follows it
LitGroupTail(s, lits, cls, tail) ==
    LET lens(i, k) == {n \in 1..RunLen(s, i + Len(lits[k]), cls) :
                          MatchAt(s, i + Len(lits[k]) + n, tail)}
        ok(i, k) == MatchAt(s, i, lits[k]) /\ lens(i, k) # {}
        hits == {i \in 1..Len(s) : \E k \in DOMAIN lits : ok(i, k)}
    IN  IF hits = {} THEN NoMatch
        ELSE LET i == Min(hits)
                 k == Min({j \in DOMAIN lits : ok(i, j)})
                 b == i + Len(lits[k])
             IN  [matched |-> TRUE, last |-> SubSeq(s, b, b + Max(lens(i, k)) - 1)]

\* the alternation of general_analysis_patterns[3], in regex order, each
\* prefixed by "should i " and followed by the single space of the pattern
should_i_alternatives ==
    <<
        "should i invest in ", "should i buy ", "should i sell ",
        "should i hold ", "should i buy or sell ", "should i buy/sell ",
        "should i hold or sell ", "should i hold/sell ",
        "should i buy hold or sell ", "should i buy hold sell ",
        "should i buy or hold ", "should i buy/hold ",
        "should i sell or hold ", "should i sell/hold "
    >>

\* r"give me an? (update|overview|summary) (on|of)? " expanded to its
\* literal alternatives in regex order (an before a, on before of before
\* the empty (on|of)?)
give_me_alternatives ==
    <<
        "give me an update on ", "give me an update of ", "give me an update  ",
        "give me an overview on ", "give me an overview of ", "give me an overview  ",
        "give me an summary on ", "give me an summary of ", "give me an summary  ",
        "give me a update on ", "give me a update of ", "give me a update  ",
        "give me a overview on ", "give me a overview of ", "give me a overview  ",
        "give me a summary on ", "give me a summary of ", "give me a summary  "
    >>

\* general_analysis_patterns[k] applied with re.search to the lower-cased
\* input: whether it matches and the value of its last group
GeneralPattern(k, s) ==
    CASE k = 1  -> LitGroup(s, <<"what's up with ", "whats up with ">>, CoinChars)
      [] k = 2  -> LitOptGroup(s, <<"tell me more about ", "tell me more ">>, CoinChars)
      [] k = 3  -> LitGroup(s, <<"tell me about ">>, CoinListChars)
      [] k = 4  -> LitGroup(s, should_i_alternatives, CoinChars)
      [] k = 5  -> LitGroup(s, <<"should i buy ", "should i sell ", "should i hold ",
                                 "should i invest in ">>, CoinChars)
      [] k = 6  -> LitOptGroup(s, give_me_alternatives, CoinChars)
      [] k = 7  -> LitGroup(s, <<"what do you think about ">>, CoinChars)
      [] k = 8  -> LitGroup(s, <<"what can you tell me about ">>, CoinChars)
      [] k = 9  -> LitGroup(s, <<"any news on ">>, CoinChars)
      [] k = 10 -> LitGroup(s, <<"what's happening with ", "whats happening with ">>, CoinChars)
      [] k = 11 -> LitGroupTail(s, <<"how's ", "hows ">>, CoinChars, " doing")
      [] k = 12 -> LitGroup(s, <<"how is ">>, CoinChars)
      [] k = 13 -> LitGroup(s, <<"what about ">>, CoinChars)

NumGeneralPatterns == 13

\* extract_intents_and_coins: stopwords of the general-analysis branch
stopwords ==
    {
        "update", "overview", "summary", "any", "buy", "sell", "hold",
        "my", "on", "of", "the", "a", "an", "is", "are", "do", "does",
        "did", "should", "i", "me", "about", "in", "to", "for", "with",
        "at", "by", "from", "it", "this", "that", "these", "those", "and",
        "or", "but", "so", "if", "then", "than", "as", "be", "been",
        "being", "was", "were", "will", "would", "can", "could", "may",
        "might", "must", "shall", "not", "no", "yes", "you", "your",
        "yours", "we", "our", "ours", "they", "their", "theirs", "he",
        "him", "his", "she", "her", "hers", "its", "them", "who", "whom",
        "whose", "which", "what", "when", "where", "why", "how", "all",
        "both", "each", "few", "more", "most", "other", "some", "such",
        "nor", "too", "very", "just", "now", "out", "up", "down", "over",
        "under", "again", "further", "once"
    }


\* extract_intents_and_coins: investment_advice_patterns (literal substrings)
investment_advice_patterns ==
    <<
        "should i invest", "is it a good buy", "is it worth",
        "is it a good investment", "should i buy", "should i hold",
        "should i sell", "is it time to buy", "is it time to sell",
        "would you invest", "do you recommend", "would you buy",
        "would you hold", "would you sell", "is it safe to invest",
        "is it risky", "is it safe", "is it risky to invest",
        "is it a scam", "is it legit", "is it legitimate", "is it a rug",
        "is it a rugpull", "is it a rug pull", "is it a pump and dump",
        "is it a ponzi", "is it a pyramid", "is it a good idea",
        "should i put money", "should i put my money", "should i trust",
        "should i avoid", "should i get in", "should i get out",
        "should i fomo", "should i ape", "should i diamond hand",
        "should i paper hand", "should i dca", "should i go all in",
        "should i go in", "should i go out", "should i exit",
        "should i enter", "should i jump in", "should i jump out",
        "should i participate", "should i join", "should i stay",
        "should i leave", "should i keep", "should i continue",
        "should i stop", "should i quit", "should i abandon",
        "should i cash out", "should i take profit",
        "should i take profits", "should i take my profit",
        "should i take my profits", "should i realize gains",
        "should i realize losses", "should i cut losses",
        "should i cut my losses", "should i cut my gains",
        "should i cut my profit", "should i cut my profits",
        "should i cut my position", "should i close position",
        "should i close my position", "should i close positions",
        "should i close my positions", "should i open position",
        "should i open my position", "should i open positions",
        "should i open my positions", "should i open a position",
        "should i open new position", "should i open new positions",
        "should i open a new position", "should i open a new positions",
        "should i open another position",
        "should i open another positions", "should i open more position",
        "should i open more positions", "should i open more",
        "should i buy more", "should i sell more", "should i hold more",
        "should i invest more", "should i put more",
        "should i put more money", "should i put more in",
        "should i put more into", "should i put more on",
        "should i put more onto", "should i put more towards",
        "should i put more toward", "should i put more for",
        "should i put more with", "should i put more to",
        "should i put more at", "should i put more by",
        "should i put more from", "should i put more of",
        "should i put more off", "should i put more out",
        "should i put more over", "should i put more under",
        "should i put more up", "should i put more down"
    >>


\* the lower-cased members of a sequence of strings, as a set
LowerSet(seq) == {Lower(seq[i]) : i \in DOMAIN seq}

\* the members of a sequence of words that are not in the set deny
RECURSIVE Keep(_, _)
Keep(seq, deny) ==
    IF seq = <<>> THEN <<>>
    ELSE (IF Lower(Head(seq)) \in deny THEN <<>> ELSE <<Lower(Head(seq))>>)
         \o Keep(Tail(seq), deny)

\* lines 501-534: the coins of the general-analysis branch for the match m
GeneralCoins(m, user_input_lower) ==
    LET candidate == IF m.last # Null /\ Strip(m.last) # ""
                     THEN DropTrailingPunct(Strip(m.last)) ELSE Null
        coin_part == IF candidate # Null /\ Lower(candidate) \notin stopwords
                     THEN candidate ELSE Null
        m2 == IF coin_part = Null THEN <<>> ELSE DollarSymbols(coin_part)
        from_part == IF coin_part = Null THEN {}
                     ELSE IF m2 # <<>> THEN LowerSet(m2)
                     ELSE Range(Keep(Words3(coin_part), stopwords))
        m3 == DollarSymbols(user_input_lower)
        rest == Keep(Words3(user_input_lower), stopwords)
    IN  IF from_part # {} THEN from_part
        ELSE IF m3 # <<>> THEN {Lower(m3[Len(m3)])}
        ELSE IF rest # <<>> THEN {rest[Len(rest)]}
        ELSE {}

\* lines 579-585: intent_map, in dictionary order
intent_map ==
    <<
        [intent |-> "PRICE",
         pats |-> <<"price", "current value", "trading at", "cost">>],
        [intent |-> "PERFORMANCE",
         pats |-> <<"performance", "change", "gain", "loss", "return",
                    "24h", "7d", "30d", "1h">>],
        [intent |-> "SENTIMENT",
         pats |-> <<"sentiment", "twitter", "social", "community", "hype",
                    "buzz", "reacting", "reaction", "opinion", "talking",
                    "discussing", "feeling", "mood", "vibe", "vibes">>],
        [intent |-> "ONCHAIN",
         pats |-> <<"smart money", "on.?chain", "flow", "wallet", "whale",
                    "accumulation", "distribution", "nansen", "trader",
                    "trading">>],
        [intent |-> "TRADING_PATTERN",
         pats |-> <<"trading pattern", "pattern analysis", "trading analytics",
                    "pattern insight", "pattern summary", "pattern report">>]
    >>

\* re.search(pat, s) for the patterns of intent_map: literals, but for
\* "on.?chain" whose .? is at most one arbitrary character
PatSearch(pat, s) ==
    IF pat = "on.?chain"
    THEN \/ Contains(s, "onchain")
         \/ \E i \in 1..Len(s) : MatchAt(s, i, "on") /\ MatchAt(s, i + 3, "chain")
    ELSE Contains(s, pat)

\* lines 586-593: found_intents
found_intents(user_input_lower) ==
    LET found == {intent_map[k].intent : k \in
                     {j \in DOMAIN intent_map :
                         \E p \in DOMAIN intent_map[j].pats :
                             PatSearch(intent_map[j].pats[p], user_input_lower)}}
    IN  IF found = {} THEN {"GENERAL"} ELSE found

\* line 599: intent_words
intent_words ==
    UNION {{OnlyAlnum(intent_map[k].pats[p]) : p \in DOMAIN intent_map[k].pats} :
              k \in DOMAIN intent_map}

\* lines 540-543: investment_advice_requested
investment_advice_requested(s) ==
    \E k \in DOMAIN investment_advice_patterns :
        Contains(s, investment_advice_patterns[k])

\* lines 601-615: the coins of one segment c of the split input; the
\* stopword set of this branch (lines 595-597) is empty
SegmentCoins(c) ==
    IF investment_advice_requested(Lower(c)) \/ Lower(Strip(c)) \in {"it", "this", "that"}
    THEN {}
    ELSE IF DollarSymbols(c) # <<>> THEN LowerSet(DollarSymbols(c))
    ELSE Range(Keep(Words3(c), intent_words))

\* the non-empty stripped members of a sequence of strings
RECURSIVE NonEmptyStripped(_)
NonEmptyStripped(seq) ==
    IF seq = <<>> THEN <<>>
    ELSE (IF Strip(Head(seq)) # "" THEN <<Strip(Head(seq))>> ELSE <<>>)
         \o NonEmptyStripped(Tail(seq))

\* lines 575-623: coins of the multi-coin branch
MultiCoins(user_input) ==
    LET coin_candidates == NonEmptyStripped(SplitOn(user_input, <<" and ", ",", " & ">>))
        coins == UNION {SegmentCoins(coin_candidates[i]) : i \in DOMAIN coin_candidates}
        m == Keep(Words3(Lower(user_input)), intent_words)
    IN  IF coins # {} THEN coins
        ELSE IF m # <<>> THEN {Head(m)}
        ELSE {}

\* lines 546-565: the coins of the direct advice branch (the \s+ of the
\* pattern and the leading blanks of the group are removed by strip())
AdviceCoins(m) ==
    LET coin_part == DropTrailingPunct(Strip(m.last))
    IN  IF DollarSymbols(coin_part) # <<>> THEN LowerSet(DollarSymbols(coin_part))
        ELSE LowerSet(Words3(coin_part))

\* lines 566-573: the coins of the "tell me about" branch
TellMeAboutCoins(s) ==
    LET m == LitGroup(s, <<"tell me about ">>, PlainListChars)
    IN  IF ~m.matched THEN {}
        ELSE Range(NonEmptyStripped(SplitOn(m.last, <<",", " and ", " & ">>)))

Extraction(p, g, a, adv) ==
    [pairs |-> p, is_greeting |-> g, is_general_analysis |-> a, advice |-> adv]

\* extract_intents_and_coins(user_input): the pairs as a set (the source
\* builds the list from sets, whose iteration order is arbitrary)
extract_intents_and_coins(user_input) ==
    LET user_input_lower == Lower(user_input)
        general == {k \in 1..NumGeneralPatterns :
                       GeneralPattern(k, user_input_lower).matched}
        advice_coin_match ==
            LitGroup(user_input_lower,
                     <<"should i buy ", "should i invest in ", "should i sell ",
                       "should i hold ">>, CoinChars)
    IN  IF is_greeting(user_input)
        THEN Extraction({}, TRUE, FALSE, FALSE)
        ELSE IF general # {}
        THEN Extraction(
                 {<<"GENERAL", c>> :
                     c \in GeneralCoins(GeneralPattern(Min(general), user_input_lower),
                                        user_input_lower)},
                 FALSE, TRUE, TRUE)
        ELSE IF advice_coin_match.matched
        THEN Extraction({<<"GENERAL", c>> : c \in AdviceCoins(advice_coin_match)},
                        FALSE, FALSE, TRUE)
        ELSE IF Contains(user_input_lower, "tell me about")
        THEN Extraction({<<"GENERAL", c>> : c \in TellMeAboutCoins(user_input_lower)},
                        FALSE, TRUE, investment_advice_requested(user_input_lower))
        ELSE Extraction(found_intents(user_input_lower) \X MultiCoins(user_input),
                        FALSE, FALSE, investment_advice_requested(user_input_lower))

(***************************************************************************)
(* crypto_assistant.py: classify_intent                                    *)
(***************************************************************************)
\* line 233: greeting_patterns of classify_intent, anchors dropped
classify_greeting_patterns ==
    <<"hi", "hello", "hey", "sup", "what's up", "whats up", "howdy", "yo",
      "greetings", "good morning", "good afternoon", "good evening", "gm",
      "gn", "good night">>

\* line 234: farewell_patterns, anchors dropped
farewell_patterns ==
    <<"bye", "goodbye", "see you", "later", "cya", "take care", "peace",
      "peace out", "adios", "farewell">>

\* line 235
how_are_you_patterns ==
    <<"how are you", "how's it going", "how are things", "what's new",
      "how have you been", "are you ok", "are you alright">>

\* line 238: general_conversation, anchors dropped
general_conversation ==
    <<"ok", "okay", "yeah", "yep", "nope", "nah", "sure", "cool", "nice",
      "wow", "omg", "lol", "haha", "thanks", "thank you", "thx", "ty", "ho",
      "who", "what", "why", "when", "where", "how">>

\* line 259
price_patterns ==
    <<"price", "cost", "current value", "trading at", "market cap", "volume">>

\* line 262: timeframe_patterns in dictionary order, each alternation as
\* the sequence of its literals
timeframe_patterns ==
    <<
        [tf |-> "1h",  pats |-> <<"1h", "1 hour", "last hour">>],
        [tf |-> "24h", pats |-> <<"24h", "24 hours", "day", "today", "yesterday">>],
        [tf |-> "7d",  pats |-> <<"7d", "7 days", "week">>],
        [tf |-> "30d", pats |-> <<"30d", "30 days", "month">>]
    >>

\* line 265
onchain_patterns ==
    <<"smart money", "on.?chain", "flow", "wallet", "transfer", "movement",
      "working", "playing">>

\* line 268
social_patterns ==
    <<"sentiment", "twitter", "social", "community", "hype", "news", "rumor">>

\* line 331
performance_patterns == <<"performance", "change", "gain", "loss", "return">>

\* any(re.search(p, s) for p in pats)
AnySearch(pats, s) == \E k \in DOMAIN pats : PatSearch(pats[k], s)

\* any(re.search(r"^p\b", s) for p in pats)
AnyStartsWithWord(pats, s) == \E k \in DOMAIN pats : StartsWithWord(s, pats[k])

\* number of blanks at position i (\s* at i; the blank is the only
\* whitespace of the utterances)
Blanks(s, i) == RunLen(s, i, {" "})

\* the literal words ws, separated by \s+, occur in s from position i:
\* the position after the last word, or 0
RECURSIVE WordsAt(_, _, _)
WordsAt(s, i, ws) ==
    IF ~MatchAt(s, i, Head(ws)) THEN 0
    ELSE IF Len(ws) = 1 THEN i + Len(Head(ws))
    ELSE LET j == i + Len(Head(ws))
         IN  IF Blanks(s, j) = 0 THEN 0
             ELSE WordsAt(s, j + Blanks(s, j), Tail(ws))

\* re.search(r"W\s+(\w+)TAIL", s) where W is one of the word sequences
\* alts and TAIL is empty or \s+ followed by a literal: the capture of the
\* leftmost match, or Null
PrefixCapture(s, alts, tail) ==
    LET start(i, a) ==
            LET e == WordsAt(s, i, a)
            IN  IF e = 0 \/ Blanks(s, e) = 0 THEN 0 ELSE e + Blanks(s, e)
        ok(i, a) ==
            LET b == start(i, a)
                n == RunLen(s, b, WordChars)
            IN  /\ b # 0
                /\ n >= 1
                /\ \/ tail = ""
                   \/ /\ Blanks(s, b + n) >= 1
                      /\ MatchAt(s, b + n + Blanks(s, b + n), tail)
        hits == {i \in 1..Len(s) : \E a \in alts : ok(i, a)}
    IN  IF hits = {} THEN Null
        ELSE LET i == Min(hits)
                 a == CHOOSE x \in alts : ok(i, x)
             IN  Run(s, start(i, a), WordChars)

\* re.search(r"(\w+)\s+(?:K1|K2|...)", s) where each K is a sequence of
\* words separated by \s+: the capture of the leftmost match, or Null
SuffixCapture(s, alts) ==
    LET ok(i) ==
            LET n == RunLen(s, i, WordChars)
                j == i + n
            IN  /\ n >= 1
                /\ Blanks(s, j) >= 1
                /\ \E a \in alts : WordsAt(s, j + Blanks(s, j), a) # 0
        hits == {i \in 1..Len(s) : ok(i)}
    IN  IF hits = {} THEN Null ELSE Run(s, Min(hits), WordChars)

\* lines 278-287: crypto_patterns[k] searched in s, its capture or Null
CryptoPattern(k, s) ==
    CASE k = 1 -> PrefixCapture(s, {<<"hows">>}, "doing")
      [] k = 2 -> PrefixCapture(s, {<<"how", "is">>, <<"how", "are">>}, "")
      [] k = 3 -> PrefixCapture(s, {<<"what", "is">>, <<"what", "about">>}, "")
      [] k = 4 -> PrefixCapture(s, {<<"tell", "me", "about">>}, "")
      [] k = 5 -> SuffixCapture(s, {<<"price">>, <<"performance">>, <<"chart">>, <<"data">>})
      [] k = 6 -> SuffixCapture(s, {<<"doing">>, <<"performing">>, <<"trading">>})
      [] k = 7 -> SuffixCapture(s, {<<"smart", "money">>, <<"flow">>})
      [] k = 8 -> SuffixCapture(s, {<<"sentiment">>, <<"social">>, <<"twitter">>})

NumCryptoPatterns == 8

\* classify_intent: words a crypto_patterns capture is not allowed to be
pattern_filter_words ==
    {
        "the", "a", "an", "this", "that", "what", "how", "when", "where",
        "why", "which", "who", "whose", "whom", "price", "cost", "current",
        "value", "trading", "at", "market", "cap", "volume", "of", "is",
        "for", "to", "in", "on", "and", "with", "show", "me", "much",
        "tell", "about", "give", "get", "latest", "recent", "news",
        "rumor", "sentiment", "twitter", "social", "community", "hype",
        "whale", "smart", "money", "flow", "wallet", "transfer",
        "movement", "performance", "over", "last", "days", "hours", "week",
        "month", "today", "yesterday", "doing", "performing", "chart",
        "data"
    }

\* classify_intent: common_words
common_words ==
    {
        "price", "cost", "current", "value", "trading", "at", "market",
        "cap", "volume", "of", "the", "is", "for", "to", "in", "on", "and",
        "a", "an", "with", "show", "me", "how", "much", "what", "tell",
        "about", "give", "get", "latest", "recent", "news", "rumor",
        "sentiment", "twitter", "social", "community", "hype", "whale",
        "smart", "money", "flow", "wallet", "transfer", "movement",
        "performance", "over", "last", "days", "hours", "week", "month",
        "today", "yesterday", "doing", "performing", "chart", "data",
        "hows", "whats", "whens", "wheres", "whys", "whos", "thats",
        "this", "that", "these", "those", "have", "has", "had", "will",
        "would", "could", "should", "might", "may", "can", "must", "shall",
        "do", "does", "did", "am", "are", "was", "were", "be", "been",
        "being"
    }


\* re.search(r"\$(\w+)", s): the first capture, or Null
FirstDollarWord(s) ==
    LET m == DollarFrom(s, 1, WordChars)
    IN  IF m = <<>> THEN Null ELSE Head(m)

\* lines 289-296: the capture of the first crypto pattern whose first
\* match is not a filtered word, or Null
PatternCoin(s) ==
    Bind([k \in 1..NumCryptoPatterns |-> CryptoPattern(k, s)], LAMBDA capture :
        LET good == {k \in 1..NumCryptoPatterns :
                        capture[k] # Null /\ capture[k] \notin pattern_filter_words}
        IN  IF good = {} THEN Null ELSE capture[Min(good)])

\* lines 299-307: the first word of three or more characters that is not
\* a common word, or Null
StandaloneCoin(s) ==
    LET words == Keep(Words3(s), common_words)
    IN  IF words = <<>> THEN Null ELSE Head(words)

\* lines 270-315: coin_query
CoinQuery(user_input) ==
    Bind(Lower(user_input), LAMBDA s :
        Bind(IF FirstDollarWord(user_input) # Null THEN FirstDollarWord(user_input)
             ELSE Bind(PatternCoin(s), LAMBDA pattern :
                      IF pattern # Null THEN pattern ELSE StandaloneCoin(s)),
             LAMBDA found :
                 IF found = Null
                    /\ (AnySearch(social_patterns, s) \/ AnySearch(onchain_patterns, s)
                        \/ AnySearch(price_patterns, s))
                 THEN "bitcoin"
                 ELSE found))

\* lines 317-322: timeframe
Timeframe(s) ==
    LET hit == {k \in DOMAIN timeframe_patterns :
                   AnySearch(timeframe_patterns[k].pats, s)}
    IN  IF hit = {} THEN Null ELSE timeframe_patterns[Min(hit)].tf

\* lines 324-333: intent
Intent(s) ==
    IF AnySearch(performance_patterns, s) THEN "PERFORMANCE"
    ELSE IF AnySearch(social_patterns, s) THEN "SOCIAL"
    ELSE IF AnySearch(onchain_patterns, s) THEN "ONCHAIN"
    ELSE IF AnySearch(price_patterns, s) THEN "PRICE"
    ELSE "GENERAL"

\* classify_intent(user_input)
classify_intent(user_input) ==
    Bind(Lower(user_input), LAMBDA s :
        IF \/ AnyStartsWithWord(classify_greeting_patterns, s)
           \/ AnyStartsWithWord(farewell_patterns, s)
           \/ AnySearch(how_are_you_patterns, s)
           \/ AnyStartsWithWord(general_conversation, s)
        THEN [intent |-> "CONVERSATION", coin_query |-> Null, timeframe |-> Null]
        ELSE [intent |-> Intent(s), coin_query |-> CoinQuery(user_input),
              timeframe |-> Timeframe(s)])

(***************************************************************************)
(* The providers: what the search, coin-detail, flow, social and           *)
(* text-completion services hold and answer                                *)
(***************************************************************************)
\* a dictionary key that is missing (as opposed to present with None)
Absent == "<absent>"

UpperMap == [c \in UpperLetters |-> c] @@ [c \in LowerLetters |->
                CHOOSE u \in UpperLetters : LowerMap[u] = c]

RECURSIVE Upper(_)
\* str.upper()
Upper(s) ==
    IF s = "" THEN ""
    ELSE (IF Head(s) \in LowerLetters THEN UpperMap[Head(s)] ELSE Head(s))
         \o Upper(Tail(s))

\* bool(x) of an optional string
Truthy(x) == x # Null /\ x # Absent /\ x # ""

NoPlatforms == [c \in {} |-> ""]

\* the coins of the search and coin-detail provider, in its ranking order,
\* with the fields the code reads from its payloads
Coins ==
    <<
        [id |-> "bitcoin", symbol |-> "btc", name |-> "Bitcoin",
         asset_platform_id |-> Null, platforms |-> NoPlatforms, usd |-> "65000.000000"],
        [id |-> "ethereum", symbol |-> "eth", name |-> "Ethereum",
         asset_platform_id |-> Null, platforms |-> NoPlatforms, usd |-> "3200.000000"],
        [id |-> "solana", symbol |-> "sol", name |-> "Solana",
         asset_platform_id |-> Null, platforms |-> NoPlatforms, usd |-> "150.000000"],
        [id |-> "binancecoin", symbol |-> "bnb", name |-> "BNB",
         asset_platform_id |-> Null, platforms |-> NoPlatforms, usd |-> "580.000000"],
        [id |-> "pepe", symbol |-> "pepe", name |-> "Pepe",
         asset_platform_id |-> "ethereum",
         platforms |-> ("ethereum" :> "0x6982508145454ce325ddbe47a25d4ec3d2311933"),
         usd |-> "0.000012"],
        [id |-> "tronix", symbol |-> "trx9", name |-> "Tronix",
         asset_platform_id |-> "tron", platforms |-> ("tron" :> "TXYZabc"),
         usd |-> "0.100000"],
        [id |-> "ghost", symbol |-> "gst", name |-> "Ghost",
         asset_platform_id |-> "ethereum",
         platforms |-> ("ethereum" :> "" @@ "bnb" :> "0x9e8a5b1e4b2cbb1d6a0a1f6b5f0c3d2e1f0a9b8c"),
         usd |-> "2.500000"]
    >>

\* the provider's answer to /search?query=q: the coins whose id, symbol or
\* name contains the query
SearchResults(query) ==
    LET q == Lower(query)
        hit(c) == Contains(c.id, q) \/ Contains(c.symbol, q) \/ Contains(Lower(c.name), q)
    IN  SelectSeq(Coins, hit)

SearchReplies == {"results", "error"}

\* the id of the first coin of seq that satisfies P, or Null
FirstId(seq, P(_)) ==
    IF SelectSeq(seq, P) = <<>> THEN Null ELSE Head(SelectSeq(seq, P)).id

\* str.replace(".", "-")
RECURSIVE DotsToDashes(_)
DotsToDashes(s) ==
    IF s = "" THEN ""
    ELSE (IF Head(s) = "." THEN "-" ELSE Head(s)) \o DotsToDashes(Tail(s))

\* the first non-Null member of a sequence of optional ids, or Null
RECURSIVE FirstFound(_)
FirstFound(ids) ==
    IF ids = <<>> THEN Null
    ELSE IF Head(ids) # Null THEN Head(ids)
    ELSE FirstFound(Tail(ids))

\* a faulty ranking that takes the first candidate of the provider
RankedCoinId_first(query, coins) == IF coins = <<>> THEN Null ELSE coins[1].id

\* search_coin_id, lines 85-151: the id chosen among the candidates of the
\* provider, which come in its order of relevance
RankedCoinId(query, coins) ==
    LET query_lower == Lower(query)
        exact(c) == Lower(c.symbol) = query_lower \/ Lower(c.name) = query_lower
        sol_eth(c) ==
            \/ ("solana" \in DOMAIN c.platforms /\ Truthy(c.platforms["solana"]))
            \/ ("ethereum" \in DOMAIN c.platforms /\ Truthy(c.platforms["ethereum"]))
            \/ c.asset_platform_id \in {"solana", "ethereum"}
        sol_eth_coins == SelectSeq(coins, sol_eth)
        by_id(c) == Lower(c.id) = query_lower
        variant(c) == \/ Contains(Lower(c.id), query_lower)
                      \/ Contains(Lower(c.id), DotsToDashes(query_lower))
        by_name(c) == Lower(c.name) = query_lower
        by_symbol(c) == Lower(c.symbol) = query_lower
        any(c) == TRUE
    IN  IF coins = <<>> THEN Null
        ELSE FirstFound(<<
                 FirstId(coins, exact),
                 FirstId(sol_eth_coins, by_id),
                 FirstId(sol_eth_coins, variant),
                 FirstId(sol_eth_coins, by_name),
                 FirstId(sol_eth_coins, by_symbol),
                 FirstId(sol_eth_coins, any),
                 FirstId(coins, by_id),
                 FirstId(coins, variant),
                 FirstId(coins, by_name),
                 FirstId(coins, by_symbol),
                 FirstId(coins, any)
             >>)

\* coingecko_tool.search_coin_id(query) when the provider answers reply
search_coin_id(query, reply) ==
    IF Strip(query) = "" THEN Null
    ELSE IF RunLen(Strip(query), 1, AlnumChars \cup {" ", ".", "-"}) # Len(Strip(query))
    THEN Null
    ELSE IF reply = "error" THEN Null
    ELSE RankedCoinId(query, SearchResults(query))

DetailReplies == {"ok", "timeout"}

\* the chains get_coin_details looks for in the platforms of a token
supported_chains ==
    <<"solana", "ethereum", "arbitrum", "polygon", "avalanche", "base", "bnb">>

native_ids == {"solana", "ethereum", "binancecoin", "avalanche-2"}

CoinDetailsError(msg) ==
    [status |-> "error", result |-> msg, coin_id |-> Absent,
     is_native_asset |-> FALSE, chain |-> Absent, contract_address |-> Absent,
     current_price |-> Absent]

\* r'^[a-zA-Z0-9-]+$'
ValidCoinId(coin_id) ==
    coin_id # "" /\ RunLen(coin_id, 1, AlnumChars \cup {"-"}) = Len(coin_id)

\* coingecko_tool.get_coin_details(coin_id) when the provider answers reply
\* ("ok", or the failure left after the retries of the request)
get_coin_details(coin_id, reply) ==
    IF coin_id = Null \/ Strip(coin_id) = ""
    THEN CoinDetailsError("Coin ID is required and cannot be empty.")
    ELSE IF ~ValidCoinId(Strip(coin_id))
    THEN CoinDetailsError("Invalid coin ID format: " \o coin_id)
    ELSE IF reply = "timeout"
    THEN CoinDetailsError("CoinGecko API request timed out. Please try again.")
    ELSE IF reply = "connection"
    THEN CoinDetailsError("Cannot connect to CoinGecko. Check your internet connection.")
    ELSE IF reply = "429"
    THEN CoinDetailsError("CoinGecko rate limit exceeded. Please try again later.")
    ELSE IF reply = "404"
    THEN CoinDetailsError("Coin '" \o coin_id \o "' not found on CoinGecko")
    ELSE IF reply = "500"
    THEN CoinDetailsError("CoinGecko server error. Please try again later.")
    ELSE LET known(c) == c.id = coin_id
         IN  IF SelectSeq(Coins, known) = <<>>
             THEN CoinDetailsError("Coin '" \o coin_id \o "' not found on CoinGecko")
             ELSE LET data == Head(SelectSeq(Coins, known))
                      is_native == ~Truthy(data.asset_platform_id) /\ data.id \in native_ids
                      listed == {k \in DOMAIN supported_chains :
                                    /\ supported_chains[k] \in DOMAIN data.platforms
                                    /\ Truthy(data.platforms[supported_chains[k]])}
                      found_chain ==
                          IF is_native THEN data.id
                          ELSE IF listed # {} THEN supported_chains[Min(listed)]
                          ELSE Null
                      contract_address ==
                          IF ~is_native /\ listed # {}
                          THEN data.platforms[supported_chains[Min(listed)]]
                          ELSE Null
                  IN  [status |-> "success",
                       result |-> "Here's the tea on " \o data.name \o ". Current price: $" \o data.usd,
                       coin_id |-> coin_id, is_native_asset |-> is_native,
                       chain |-> found_chain, contract_address |-> contract_address,
                       current_price |-> data.usd]

\* coingecko_tool.get_historical_performance(coin_id, timeframe)
get_historical_performance(coin_id, timeframe, reply) ==
    IF ~Truthy(coin_id) THEN [status |-> "error", result |-> "Missing coin_id parameter."]
    ELSE LET coin_data == get_coin_details(coin_id, reply)
         IN  IF coin_data.status # "success"
             THEN [status |-> "error", result |-> coin_data.result]
             ELSE IF timeframe \in {"all", "1h", "24h", "7d", "30d"}
             THEN [status |-> "success",
                   result |-> "Performance for " \o coin_id \o " over " \o timeframe]
             ELSE [status |-> "error",
                   result |-> "Invalid timeframe '" \o timeframe \o "'."]

(***************************************************************************)
(* nansen_tool.py                                                          *)
(***************************************************************************)
\* smart_money_data["data"]: missing, None, or a dictionary with keys
NoData == [present |-> FALSE, is_dict |-> FALSE, keys |-> {}]

DataNone == [present |-> TRUE, is_dict |-> FALSE, keys |-> {}]

DataDict(ks) == [present |-> TRUE, is_dict |-> TRUE, keys |-> ks]

\* a dictionary returned by a flow function, with the keys the callers read
FlowDict(status, result) ==
    [status |-> status, result |-> result, message |-> Absent, summary |-> Absent,
     fallback |-> FALSE, analytics_type |-> Absent, data |-> NoData,
     flows |-> <<>>, trading_patterns |-> Absent, raw |-> FALSE]

\* the keys of a flow dictionary
FlowKeys(d) ==
    {"status"}
    \cup (IF d.result # Absent THEN {"result"} ELSE {})
    \cup (IF d.message # Absent THEN {"message"} ELSE {})
    \cup (IF d.summary # Absent THEN {"summary", "analysis"} ELSE {})
    \cup (IF d.fallback THEN {"fallback"} ELSE {})
    \cup (IF d.analytics_type # Absent THEN {"analytics_type"} ELSE {})
    \cup (IF d.data.present THEN {"data"} ELSE {})
    \cup (IF d.flows # <<>> THEN {"flows", "advice"} ELSE {})
    \cup (IF d.trading_patterns # Absent THEN {"trading_patterns"} ELSE {})
    \cup (IF d.raw THEN {"raw", "netflow_usd"} ELSE {})

valid_chains ==
    {"ethereum", "solana", "polygon", "arbitrum", "avalanche", "base", "bnb"}

FlowReplies == {"flow", "nodata", "timeout"}

\* lines 129-136, 612-618: the token address format of a chain
ValidTokenAddress(chain, token_address) ==
    IF Lower(chain) = "solana"
    THEN 32 <= Len(token_address) /\ Len(token_address) <= 44
    ELSE MatchAt(token_address, 1, "0x") /\ Len(token_address) = 42

\* _fetch_nansen_flow_intelligence(chain, token_address, timeframe) when
\* the provider answers reply
fetch_nansen_flow_intelligence(chain, token_address, reply) ==
    IF ~Truthy(chain) \/ Strip(chain) = ""
    THEN FlowDict("error", "Chain parameter is required and cannot be empty.")
    ELSE IF ~Truthy(token_address) \/ Strip(token_address) = ""
    THEN FlowDict("error", "Token address parameter is required and cannot be empty.")
    ELSE IF Lower(chain) \notin valid_chains
    THEN FlowDict("error", "Unsupported chain '" \o chain \o "'.")
    ELSE IF ~ValidTokenAddress(chain, token_address)
    THEN FlowDict("error", "Invalid token address format: " \o token_address)
    ELSE IF reply = "timeout"
    THEN FlowDict("error", "Nansen API request timed out - try again")
    ELSE IF reply = "connection"
    THEN FlowDict("error", "Cannot connect to Nansen API - check internet connection")
    ELSE IF reply = "429"
    THEN FlowDict("error", "Nansen API rate limit exceeded - try again later")
    ELSE IF reply = "404"
    THEN FlowDict("error", "Unsupported chain or token for Nansen smart money flow.")
    ELSE IF reply = "500"
    THEN FlowDict("error", "Nansen server error - try again later")
    ELSE IF reply = "empty"
    THEN FlowDict("error", "Failed to fetch Nansen data after retries")
    ELSE IF reply = "nodata"
    THEN FlowDict("success", "No recent smart money data was found.")
    ELSE [FlowDict("success", "$1.25M") EXCEPT !.raw = TRUE]

\* _fetch_nansen_trading_patterns(chain, token_address)
fetch_nansen_trading_patterns(chain, token_address, reply) ==
    IF ~Truthy(chain) \/ Strip(chain) = ""
    THEN FlowDict("error", "Chain parameter is required and cannot be empty.")
    ELSE IF ~Truthy(token_address) \/ Strip(token_address) = ""
    THEN FlowDict("error", "Token address parameter is required and cannot be empty.")
    ELSE IF Lower(chain) \notin valid_chains
    THEN FlowDict("error", "Unsupported chain '" \o chain \o "'.")
    ELSE IF ~ValidTokenAddress(chain, token_address)
    THEN FlowDict("error", "Invalid token address format: " \o token_address)
    ELSE IF reply = "timeout" THEN FlowDict("error", "Network error")
    ELSE IF reply = "nodata"
    THEN FlowDict("error", "Failed to fetch trading patterns after retries")
    ELSE FlowDict("success", "patterns")

\* the provider's answers to the four requests of one token lookup
TokenReply(h24, d7, d30, patterns) ==
    [h24 |-> h24, d7 |-> d7, d30 |-> d30, patterns |-> patterns]

\* "Net smart money flow (label): ..." of get_token_smart_money_flow
FlowLine(label, f) ==
    "Net smart money flow (" \o label \o "): "
    \o (IF f.status = "success" THEN "" ELSE "Error: ") \o f.result

\* get_token_smart_money_flow(chain, token_address)
get_token_smart_money_flow(chain, token_address, reply) ==
    IF ~Truthy(chain) \/ Strip(chain) = ""
    THEN FlowDict("error", "Chain parameter is required and cannot be empty.")
    ELSE IF ~Truthy(token_address) \/ Strip(token_address) = ""
    THEN FlowDict("error", "Token address parameter is required and cannot be empty.")
    ELSE IF Lower(chain) \notin valid_chains
    THEN FlowDict("error", "Unsupported chain '" \o chain \o "'.")
    ELSE IF ~ValidTokenAddress(chain, token_address)
    THEN FlowDict("error", "Invalid token address format: " \o token_address)
    ELSE Bind(<<fetch_nansen_flow_intelligence(chain, token_address, reply.h24),
                fetch_nansen_flow_intelligence(chain, token_address, reply.d7),
                fetch_nansen_flow_intelligence(chain, token_address, reply.d30)>>,
              LAMBDA flows :
         Bind(fetch_nansen_trading_patterns(chain, token_address, reply.patterns),
              LAMBDA trading_patterns :
             [FlowDict("success",
                       FlowLine("24h", flows[1]) \o " / " \o FlowLine("7d", flows[2])
                       \o " / " \o FlowLine("30d", flows[3])
                       \o " / Trading patterns: "
                       \o (IF trading_patterns.status = "success" THEN "" ELSE "Error: ")
                       \o trading_patterns.result)
              EXCEPT !.flows = flows, !.trading_patterns = trading_patterns.status]))

\* get_alternative_native_asset_analytics(chain)
get_alternative_native_asset_analytics(chain) ==
    [FlowDict("success", "Smart money flow not available for " \o chain \o " native asset.")
     EXCEPT !.fallback = TRUE, !.analytics_type = "alternative_native_asset"]

\* the wrapped native assets Nansen tracks (native_asset_addresses)
native_asset_addresses ==
    "solana" :> "So11111111111111111111111111111111111111112" @@
    "ethereum" :> "0xc02aaa39b223fe8d0a0e5c4f27ead9083c756cc2" @@
    "polygon" :> "0x0d500b1d8e8ef31e21c99d1db9a6444d3adf1270" @@
    "arbitrum" :> "0x82af49447d8a07e3bd95bd0d56f35241523fbab1" @@
    "avalanche" :> "0xb31f66aa3c1e785363f0875a1b74e27b85fd66c7" @@
    "base" :> "0x4200000000000000000000000000000000000006" @@
    "bnb" :> "0xbb4cdb9cbd36b01bd1cbaef2af88c6b9364c9a4f"

\* get_native_asset_smart_money_flow(chain)
get_native_asset_smart_money_flow(chain, reply) ==
    IF ~Truthy(chain) \/ Strip(chain) = ""
    THEN FlowDict("error", "Chain parameter is required and cannot be empty.")
    ELSE IF Lower(chain) \notin valid_chains
    THEN FlowDict("error", "Unsupported chain '" \o chain \o "'.")
    ELSE IF Lower(chain) \notin DOMAIN native_asset_addresses
    THEN get_alternative_native_asset_analytics(chain)
    ELSE Bind(fetch_nansen_flow_intelligence(
                  chain, native_asset_addresses[Lower(chain)], reply),
              LAMBDA result :
                  IF result.status = "error"
                  THEN get_alternative_native_asset_analytics(chain)
                  ELSE result)

\* get_comprehensive_smart_money_flow(chain, token_address)
get_comprehensive_smart_money_flow(chain, token_address, reply) ==
    IF ~Truthy(token_address) \/ Strip(token_address) = ""
    THEN FlowDict("error", "Token address parameter is required and cannot be empty.")
    ELSE IF Lower(chain) \notin valid_chains
    THEN FlowDict("error", "Unsupported chain '" \o chain \o "'.")
    ELSE IF ~(MatchAt(token_address, 1, "0x") \/ MatchAt(token_address, 1, "1")
              \/ MatchAt(token_address, 1, "2"))
    THEN FlowDict("error", "Invalid token address format: " \o token_address)
    ELSE [FlowDict("success", Absent)
          EXCEPT !.data = DataDict({"24h", "7d", "30d"}),
                 !.summary = IF reply.h24 = "flow" THEN "24h: $1.25M (N/A traders)"
                             ELSE "24h: Data unavailable"]

\* the answers of the providers consulted by one flow lookup
Replies(search, details, flow, token) ==
    [search |-> search, details |-> details, flow |-> flow, token |-> token]

\* get_token_address_from_coingecko(symbol): (chain, token_address)
get_token_address_from_coingecko(symbol, r) ==
    Bind(search_coin_id(symbol, r.search), LAMBDA coin_id :
        IF ~Truthy(coin_id) THEN <<Null, Null>>
        ELSE Bind(get_coin_details(coin_id, r.details), LAMBDA coin_details :
                 IF coin_details.status # "success" THEN <<Null, Null>>
                 ELSE IF coin_details.is_native_asset
                 THEN (IF Truthy(coin_details.chain) THEN <<coin_details.chain, Null>>
                       ELSE <<Null, Null>>)
                 ELSE IF Truthy(coin_details.chain) /\ Truthy(coin_details.contract_address)
                 THEN <<coin_details.chain, coin_details.contract_address>>
                 ELSE <<Null, Null>>))

\* dict.get(key) of a key that may be missing
Get(v) == IF v = Absent THEN Null ELSE v

\* get_smart_money_flow(symbol)
get_smart_money_flow(symbol, r) ==
    Bind(get_token_address_from_coingecko(symbol, r), LAMBDA where :
        LET chain == where[1]
            token_address == where[2]
        IN  IF ~Truthy(chain)
            THEN [FlowDict("error", Absent)
                  EXCEPT !.message = "Could not find " \o Upper(symbol)
                                     \o " on CoinGecko or determine its chain.",
                         !.data = DataNone]
            ELSE IF ~Truthy(token_address)
            THEN Bind(get_native_asset_smart_money_flow(chain, r.flow), LAMBDA result :
                     [FlowDict(result.status, Absent)
                      EXCEPT !.message = Get(result.result),
                             !.data = DataDict(FlowKeys(result))])
            ELSE Bind(get_comprehensive_smart_money_flow(chain, token_address, r.token),
                      LAMBDA result :
                     [FlowDict(result.status, Absent)
                      EXCEPT !.message = Get(result.summary),
                             !.data = DataDict(FlowKeys(result))]))

(***************************************************************************)
(* twitter_tool.py, grok_model.py, conversation_tool.py                    *)
(***************************************************************************)
SentimentReplies == {"tweets", "nokey", "nodata"}

\* get_social_sentiment(symbol, coin_name) when the provider answers reply
get_social_sentiment(symbol, reply) ==
    IF reply = "nokey"
    THEN [status |-> "error", summary |-> Absent,
          result |-> "Twitter API key missing. Please add TWITTER_BEARER_TOKEN to your .env file."]
    ELSE IF reply = "nodata"
    THEN [status |-> "error", summary |-> Absent,
          result |-> "No social sentiment data available (Twitter API returned no data)."]
    ELSE [status |-> "success", result |-> Absent,
          summary |-> "Social Sentiment for " \o Upper(symbol)
                      \o " Positive: 60.0%  |  Negative: 10.0%  |  Neutral: 30.0%"]

LLMReplies ==
    {"analysis", "short", "empty", "malformed", "timeout", "connection", "other"}

\* GrokModel.chat_completion(messages) when the service answers reply: the
\* exception it raises, or the choices of its response
chat_completion(reply) ==
    CASE reply = "analysis" ->
            [raised |-> Null, choices |-> TRUE,
             content |-> "Whales keep buying, the crowd is bullish."]
      [] reply = "short" -> [raised |-> Null, choices |-> TRUE, content |-> " ok "]
      [] reply = "empty" -> [raised |-> Null, choices |-> TRUE, content |-> ""]
      [] reply = "malformed" -> [raised |-> Null, choices |-> FALSE, content |-> Null]
      [] reply = "timeout" -> [raised |-> "TimeoutError", choices |-> FALSE, content |-> Null]
      [] reply = "connection" ->
            [raised |-> "ConnectionError", choices |-> FALSE, content |-> Null]
      [] reply = "other" -> [raised |-> "Exception", choices |-> FALSE, content |-> Null]

\* conversation_tool.handle_conversation(user_input): the content of the
\* completion, or the hard-coded reply when the completion fails
handle_conversation(user_input, reply) ==
    LET response == chat_completion(reply)
    IN  IF response.raised = Null /\ response.choices THEN response.content
        ELSE "Hi. I'm Naomi! Created by Insight Labs AI."

(***************************************************************************)
(* crypto_assistant.py: generate_simple_charts, the helpers of main        *)
(***************************************************************************)
\* lines 384-406 of generate_simple_charts: the exception the smart-money
\* section raises, or Null.  When the data dictionary has no "24h" entry
\* the first iteration reads the local `flow` before any assignment.
generate_simple_charts(smart_money_data) ==
    IF smart_money_data.data.present /\ smart_money_data.data.is_dict
       /\ "24h" \notin smart_money_data.data.keys
    THEN "UnboundLocalError"
    ELSE Null

\* api_main.generate_simple_charts, lines 268-281: `timeframe in data`
\* raises when the data entry is None
api_generate_simple_charts(smart_money_data) ==
    IF smart_money_data.data.present /\ ~smart_money_data.data.is_dict
    THEN "TypeError"
    ELSE Null

\* line 1219 and api_main line 507: entries kept in the window
WindowSize == 10

\* line 1099: content counts when longer than this many characters
MinContentLen == 10

\* lines 1219-1220, api_main lines 507-508: conversation[-10:]
LimitHistory(conv) ==
    IF Len(conv) > WindowSize
    THEN SubSeq(conv, Len(conv) - WindowSize + 1, Len(conv))
    ELSE conv

\* the two entries of exchange number n; the number stands for the texts
Exchange(n) == <<[role |-> "user", turn |-> n], [role |-> "assistant", turn |-> n]>>

\* line 937: data_summary
DataSummary(d, symbol) ==
    Upper(IF d.coin_id = Absent THEN symbol ELSE d.coin_id)
    \o " - Price: $" \o d.current_price
    \o ", Chain: " \o (IF d.chain = Null THEN "None" ELSE d.chain)

\* lines 987-1025: format_trading_pattern_analysis, Null when there is
\* nothing to report
format_trading_pattern_analysis(d) ==
    IF d.flows = <<>> THEN Null
    ELSE IF \E k \in {1, 2} : d.flows[k].status = "success" /\ d.flows[k].raw
    THEN "Trading Pattern Analysis (Nansen Data)"
    ELSE Null

\* a faulty choice that looks the token up as soon as the chain is known
CliFlowCalls_chain_only(symbol, d, r) ==
    IF Truthy(d.chain)
    THEN <<[fn |-> "get_token_smart_money_flow",
            data |-> get_token_smart_money_flow(d.chain, d.contract_address, r.token)]>>
    ELSE <<[fn |-> "get_smart_money_flow", data |-> get_smart_money_flow(symbol, r)]>>

\* lines 944-978: the flow lookups of the general analysis, in call order,
\* each with the function called and the dictionary returned
CliFlowCalls(symbol, d, r) ==
    LET legacy == [fn |-> "get_smart_money_flow",
                   data |-> get_smart_money_flow(symbol, r)]
    IN  IF d.is_native_asset
        THEN IF Truthy(d.chain) /\ Lower(d.chain) # "unknown"
             THEN Bind(get_native_asset_smart_money_flow(d.chain, r.flow), LAMBDA first :
                  LET native == [fn |-> "get_native_asset_smart_money_flow", data |-> first]
                  IN  IF first.status # "error" THEN <<native>>
                      ELSE IF Contains(first.result, "not supported for native asset")
                      THEN <<native,
                             [fn |-> "inline",
                              data |-> [FlowDict("success",
                                            "Smart money flow data not available for "
                                            \o Upper(symbol) \o " on " \o d.chain)
                                        EXCEPT !.fallback = TRUE]]>>
                      ELSE <<native, legacy>>)
             ELSE <<legacy>>
        ELSE IF Truthy(d.chain) /\ Lower(d.chain) # "unknown" /\ Truthy(d.contract_address)
        THEN <<[fn |-> "get_token_smart_money_flow",
                data |-> get_token_smart_money_flow(d.chain, d.contract_address, r.token)]>>
        ELSE <<legacy>>

\* lines 962-966: the suggestions appended to an alternative-analytics result
WithSuggestions(d) ==
    IF d.fallback /\ d.analytics_type = "alternative_native_asset"
    THEN [d EXCEPT !.result = @ \o " Alternative analysis suggestions"]
    ELSE d

\* lines 980-984 and 1027-1033: the digest lines of the flow data
FlowLines(d) ==
    (IF d.result # Absent THEN <<"Smart Money Analytics: " \o d.result>> ELSE <<>>)
    \o (IF d.trading_patterns = "error" /\ format_trading_pattern_analysis(d) # Null
        THEN <<format_trading_pattern_analysis(d)>> ELSE <<>>)

\* lines 1041-1051: the digest line of the social data
SocialLine(s) ==
    IF s.status = "success" THEN "Social Sentiment: " \o s.summary
    ELSE IF s.status = "error"
    THEN (IF Contains(Get(s.result), "API key missing")
          THEN "Social Sentiment: Twitter API key required - add TWITTER_BEARER_TOKEN to .env"
          ELSE "Social Sentiment: " \o Get(s.result))
    ELSE "Social Sentiment: Data unavailable"

(***************************************************************************)
(* The sessions                                                            *)
(***************************************************************************)
\* exchanges a session may append
MaxExchanges == 6

\* what the user types at the prompt of the CLI
Utterances ==
    {
        "hi", "what's up with bitcoin", "how is solana doing", "how is it",
        "should i buy it", "tell me about", "tell me about foo and bitcoin",
        "tell me about bitcoin", "tell me about solana", "tell me about bnb",
        "tell me about pepe", "tell me about solana 7d change", "bitcoin",
        "price", "pepe flow", "price of foo and bitcoin",
        "price of $BTC and sentiment for $ETH"
    }

\* the symbols and intents a client posts to /analysis
Symbols == {"btc", "solana", "pepe", "foo"}

RequestIntents == {Null, "ONCHAIN"}

\* the answers of the providers to the four requests of a token lookup
TokenReplies ==
    {TokenReply("flow", "flow", "flow", "flow"),
     TokenReply("flow", "flow", "flow", "timeout"),
     TokenReply("timeout", "flow", "flow", "flow"),
     TokenReply("timeout", "timeout", "timeout", "timeout")}

FlowEnv ==
    {Replies(s, d, f, t) : s \in SearchReplies, d \in DetailReplies,
                           f \in FlowReplies, t \in TokenReplies}

VARIABLES
    mode,             \* "cli": the loop of main; "api": the HTTP endpoints
    pc,               \* the position of the running turn or request
    conversation,     \* main: the conversation list
    context,          \* the context a client threads through /conversation
    exchanges,        \* exchanges appended so far in the session
    user_input,       \* the utterance, the message or the symbol of the request
    extraction,       \* what extract_intents_and_coins returned (line 881)
    intent_data,      \* what classify_intent returned (line 890)
    coin_id,
    coin_details,
    smart_money_data,
    social_data,
    additional_data,  \* the digest lines after data_summary
    responses,        \* build_focused_response: the reports so far
    stages,           \* the stages the turn has entered, in order
    calls,            \* the collaborators the turn has called, in order
    output,           \* what the turn told the user
    tool_run          \* a tool function called on its own: the call, the
                      \* requests it sent to its provider and what it returned

vars ==
    <<mode, pc, conversation, context, exchanges, user_input, extraction,
      intent_data, coin_id, coin_details, smart_money_data, social_data,
      additional_data, responses, stages, calls, output, tool_run>>

\* no tool function has been called on its own
NoRun == [fn |-> "none"]

NoExtraction == Extraction(<<>>, FALSE, FALSE, FALSE)

NoIntent == [intent |-> Null, coin_query |-> Null, timeframe |-> Null]

NoDetails == [CoinDetailsError(Absent) EXCEPT !.status = Absent]

NoFlow == FlowDict(Absent, Absent)

NoSocial == [status |-> Absent, result |-> Absent, summary |-> Absent]

NoOutput == [kind |-> "none", text |-> ""]

Output(kind, text) == [kind |-> kind, text |-> text]

\* one call of a collaborator on behalf of the pair (intent, coin)
Call(fetcher, fn, intent, coin, ret) ==
    [fetcher |-> fetcher, fn |-> fn, intent |-> intent, coin |-> coin, ret |-> ret]

Init ==
    /\ mode \in {"cli", "api"}
    /\ pc = "IDLE"
    /\ conversation = <<>>
    /\ context = <<>>
    /\ exchanges = 0
    /\ user_input = ""
    /\ extraction = NoExtraction
    /\ intent_data = NoIntent
    /\ coin_id = Null
    /\ coin_details = NoDetails
    /\ smart_money_data = NoFlow
    /\ social_data = NoSocial
    /\ additional_data = <<>>
    /\ responses = <<>>
    /\ stages = <<>>
    /\ calls = <<>>
    /\ output = NoOutput
    /\ tool_run = NoRun

\* the locals of a turn are those of a fresh iteration
FreshLocals ==
    /\ extraction' = NoExtraction
    /\ intent_data' = NoIntent
    /\ coin_id' = Null
    /\ coin_details' = NoDetails
    /\ smart_money_data' = NoFlow
    /\ social_data' = NoSocial
    /\ additional_data' = <<>>
    /\ responses' = <<>>

FreshTurn ==
    /\ FreshLocals
    /\ calls' = <<>>
    /\ output' = NoOutput

\* the turn ends: the loop is back at the prompt
EndTurn(kind, text) ==
    /\ output' = Output(kind, text)
    /\ pc' = "IDLE"

\* all orders in which a set can be iterated
Orders(S) ==
    {f \in [1..Cardinality(S) -> S] : \A i, j \in 1..Cardinality(S) : f[i] = f[j] => i = j}

\* list(itertools.product(intents, coins)) for one iteration order of each
ProductList(intents, coins) ==
    [k \in 1..(Len(intents) * Len(coins)) |->
        <<intents[((k - 1) \div Len(coins)) + 1], coins[((k - 1) % Len(coins)) + 1]>>]

\* the lists the pairs of an extraction can come in: the sets of the
\* extractor are iterated in an order the program does not fix
PairLists(ps) ==
    {ProductList(i, c) : i \in Orders({p[1] : p \in ps}), c \in Orders({p[2] : p \in ps})}

(***************************************************************************)
(* crypto_assistant.py: main, one action per step of a turn                *)
(***************************************************************************)
\* random_naomi_greeting(): two of the openers it draws from
naomi_greetings ==
    {"Hi, I'm Naomi! Created by Insight Labs AI.",
     "Hey! Naomi here. The charts are moving and so am I."}

\* lines 905 and 1224
clarify_text == "Naomi: Hey! What crypto are you asking about?"

\* a faulty `if not coin_id` that lets every answer of the resolver through
NotFound_never(id) == FALSE

\* lines 913 and 666 of build_focused_response: `if not coin_id`
NotFound(id) == ~Truthy(id)

Enter(stage) == stages' = Append(stages, stage)

\* conversation.append(user); conversation.append(assistant)
AppendExchange ==
    /\ conversation' = conversation \o Exchange(exchanges + 1)
    /\ exchanges' = exchanges + 1

\* line 852: the user enters an utterance
ReadInput(u) ==
    /\ mode = "cli"
    /\ pc = "IDLE"
    /\ exchanges < MaxExchanges
    /\ user_input' = u
    /\ stages' = <<"START">>
    /\ FreshTurn
    /\ pc' = "EXTRACT"
    /\ UNCHANGED <<tool_run, mode, conversation, context, exchanges>>

\* line 881: pairs, is_greeting, is_general, investment_advice_requested
Extract ==
    /\ pc = "EXTRACT"
    /\ \E e \in {extract_intents_and_coins(user_input)} :
           \E ps \in PairLists(e.pairs) : extraction' = [e EXCEPT !.pairs = ps]
    /\ Enter("CLASSIFY")
    /\ pc' = "DISPATCH"
    /\ UNCHANGED <<tool_run, mode, conversation, context, exchanges, user_input, intent_data,
                   coin_id, coin_details, smart_money_data, social_data,
                   additional_data, responses, calls, output>>

\* lines 882-887: the greeting reply
Greet ==
    /\ pc = "DISPATCH"
    /\ extraction.is_greeting
    /\ Enter("GREETING_TERMINAL")
    /\ \E greeting \in naomi_greetings : EndTurn("greeting", greeting)
    /\ AppendExchange
    /\ UNCHANGED <<tool_run, mode, context, user_input, extraction, intent_data, coin_id,
                   coin_details, smart_money_data, social_data, additional_data,
                   responses, calls>>

\* lines 888-893: the general analysis starts from classify_intent
GeneralClassify ==
    /\ pc = "DISPATCH"
    /\ ~extraction.is_greeting
    /\ extraction.is_general_analysis
    /\ intent_data' = classify_intent(user_input)
    /\ pc' = "GENERAL"
    /\ UNCHANGED <<tool_run, mode, conversation, context, exchanges, user_input, extraction,
                   coin_id, coin_details, smart_money_data, social_data,
                   additional_data, responses, stages, calls, output>>

\* lines 896-901: a CONVERSATION intent is answered by handle_conversation
Converse(reply) ==
    /\ pc = "GENERAL"
    /\ intent_data.intent = "CONVERSATION"
    /\ Enter("GREETING_TERMINAL")
    /\ calls' = Append(calls, Call("LLM", "handle_conversation", "CONVERSATION",
                                   Null, reply))
    /\ EndTurn("conversation", handle_conversation(user_input, reply))
    /\ AppendExchange
    /\ UNCHANGED <<tool_run, mode, context, user_input, extraction, intent_data, coin_id,
                   coin_details, smart_money_data, social_data, additional_data,
                   responses>>

\* lines 904-906: classify_intent found no coin
ClarifyGeneral ==
    /\ pc = "GENERAL"
    /\ intent_data.intent # "CONVERSATION"
    /\ ~Truthy(intent_data.coin_query)
    /\ Enter("CLARIFY_TERMINAL")
    /\ EndTurn("clarify", clarify_text)
    /\ UNCHANGED <<tool_run, mode, conversation, context, exchanges, user_input, extraction,
                   intent_data, coin_id, coin_details, smart_money_data,
                   social_data, additional_data, responses, calls>>

\* lines 908-918: the coin of classify_intent is resolved
ResolveGeneral(reply) ==
    /\ pc = "GENERAL"
    /\ intent_data.intent # "CONVERSATION"
    /\ Truthy(intent_data.coin_query)
    /\ Enter("RESOLVE")
    /\ \E symbol \in {intent_data.coin_query} :
       \E found \in {search_coin_id(symbol, reply)} :
       \E id \in {IF found # Null /\ Strip(found) # "" THEN found ELSE Null} :
           /\ coin_id' = id
           /\ calls' = Append(calls, Call("Resolver", "search_coin_id",
                                          intent_data.intent, symbol, id))
           /\ IF NotFound(id)
              THEN EndTurn("not_found",
                           "Naomi: Oops! I couldn't find " \o Upper(symbol)
                           \o " on CoinGecko.")
              ELSE IF ~ValidCoinId(id)
              THEN EndTurn("invalid_id",
                           "Naomi: Invalid coin ID format for " \o Upper(symbol) \o ".")
              ELSE pc' = "MARKET" /\ output' = output
    /\ UNCHANGED <<tool_run, mode, conversation, context, exchanges, user_input, extraction,
                   intent_data, coin_details, smart_money_data, social_data,
                   additional_data, responses>>

\* lines 920-926: the coin details; a failure ends the turn
FetchMarket(reply) ==
    /\ pc = "MARKET"
    /\ Enter("FETCH")
    /\ \E details \in {get_coin_details(coin_id, reply)} :
           /\ coin_details' = details
           /\ calls' = Append(calls, Call("Market", "get_coin_details",
                                          intent_data.intent, intent_data.coin_query,
                                          details.status))
           /\ IF details.status # "success"
              THEN EndTurn("try_again",
                           "Naomi: Yikes! Something went wrong getting data for "
                           \o Upper(intent_data.coin_query) \o ". Try again in a moment!")
              ELSE pc' = "FLOW" /\ output' = output
    /\ UNCHANGED <<tool_run, mode, conversation, context, exchanges, user_input, extraction,
                   intent_data, coin_id, smart_money_data, social_data,
                   additional_data, responses>>

\* lines 939-1033: the smart money analytics and their digest lines
FetchFlow(r) ==
    /\ pc = "FLOW"
    /\ \E symbol \in {intent_data.coin_query} :
       \E made \in {CliFlowCalls(symbol, coin_details, r)} :
       \E data \in {WithSuggestions(made[Len(made)].data)} :
           /\ smart_money_data' = data
           /\ calls' = calls \o [k \in 1..Len(made) |->
                                    Call("Flow", made[k].fn, intent_data.intent, symbol,
                                         made[k].data.status)]
           /\ additional_data' = FlowLines(data)
    /\ pc' = "SENTIMENT"
    /\ UNCHANGED <<tool_run, mode, conversation, context, exchanges, user_input, extraction,
                   intent_data, coin_id, coin_details, social_data, responses,
                   stages, output>>

\* lines 1035-1051: the social sentiment and its digest line
FetchSentiment(reply) ==
    /\ pc = "SENTIMENT"
    /\ \E social \in {get_social_sentiment(intent_data.coin_query, reply)} :
           /\ social_data' = social
           /\ calls' = Append(calls, Call("Sentiment", "get_social_sentiment",
                                          intent_data.intent, intent_data.coin_query,
                                          social.status))
           /\ additional_data' = Append(additional_data, SocialLine(social))
    /\ pc' = IF intent_data.intent = "PERFORMANCE" /\ Truthy(intent_data.timeframe)
             THEN "PERFORMANCE" ELSE "MERGE"
    /\ UNCHANGED <<tool_run, mode, conversation, context, exchanges, user_input, extraction,
                   intent_data, coin_id, coin_details, smart_money_data, responses,
                   stages, output>>

\* lines 1053-1060: the performance of the timeframe asked for
FetchPerformance(reply) ==
    /\ pc = "PERFORMANCE"
    /\ \E perf_data \in {get_historical_performance(coin_id, intent_data.timeframe,
                                                     reply)} :
           /\ calls' = Append(calls, Call("Market", "get_historical_performance",
                                          intent_data.intent, intent_data.coin_query,
                                          perf_data.status))
           /\ additional_data' =
                  Append(additional_data,
                         IF perf_data.status = "success"
                         THEN "Performance (" \o intent_data.timeframe \o "): "
                              \o perf_data.result
                         ELSE "Performance data unavailable: " \o perf_data.result)
    /\ pc' = "MERGE"
    /\ UNCHANGED <<tool_run, mode, conversation, context, exchanges, user_input, extraction,
                   intent_data, coin_id, coin_details, smart_money_data, social_data,
                   responses, stages, output>>

\* lines 1062-1075: the digest is joined and the charts are drawn; an
\* exception of generate_simple_charts reaches the handlers of the loop,
\* the last of which (lines 1252-1261) prints the message, the type and
\* the traceback of the exception
Merge ==
    /\ pc = "MERGE"
    /\ Enter("MERGE")
    /\ IF generate_simple_charts(smart_money_data) # Null
       THEN EndTurn("unexpected_error",
                    "Naomi: Unexpected error occurred: local variable 'flow' "
                    \o "referenced before assignment\n"
                    \o "This is unusual! Please try again or contact support "
                    \o "if it persists.\n"
                    \o "Error type: " \o generate_simple_charts(smart_money_data)
                    \o "\nDebug info: Traceback (most recent call last)")
       ELSE pc' = "NARRATE" /\ output' = output
    /\ UNCHANGED <<tool_run, mode, conversation, context, exchanges, user_input, extraction,
                   intent_data, coin_id, coin_details, smart_money_data, social_data,
                   additional_data, responses, calls>>

\* lines 1089-1220: the completion or, on any failure, the data summary;
\* the exchange is appended and the history is limited
Narrate(reply) ==
    /\ pc = "NARRATE"
    /\ stages' = stages \o <<"NARRATE", "RESPOND">>
    /\ calls' = Append(calls, Call("LLM", "chat_completion", intent_data.intent,
                                   intent_data.coin_query, reply))
    /\ \E response \in {chat_completion(reply)} :
           IF /\ response.raised = Null
              /\ response.choices
              /\ Len(Strip(response.content)) > MinContentLen
           THEN EndTurn("analysis", response.content)
           ELSE EndTurn("summary",
                        (IF response.raised \in {Null, "TimeoutError", "ConnectionError"}
                         THEN ""
                         ELSE "Naomi: Unexpected error with Grok: " \o response.raised
                              \o ". Here's what I found: ")
                        \o "Naomi: " \o DataSummary(coin_details, intent_data.coin_query))
    /\ conversation' = LimitHistory(conversation \o Exchange(exchanges + 1))
    /\ exchanges' = exchanges + 1
    /\ UNCHANGED <<tool_run, mode, context, user_input, extraction, intent_data, coin_id,
                   coin_details, smart_money_data, social_data, additional_data,
                   responses>>

\* lines 1223-1225: nothing to look up
ClarifyNoPairs ==
    /\ pc = "DISPATCH"
    /\ ~extraction.is_greeting
    /\ ~extraction.is_general_analysis
    /\ extraction.pairs = <<>>
    /\ Enter("CLARIFY_TERMINAL")
    /\ EndTurn("clarify", clarify_text)
    /\ UNCHANGED <<tool_run, mode, conversation, context, exchanges, user_input, extraction,
                   intent_data, coin_id, coin_details, smart_money_data,
                   social_data, additional_data, responses, calls>>

\* one report of build_focused_response
Report(intent, coin, kind, text) ==
    [intent |-> intent, coin |-> coin, kind |-> kind, text |-> Upper(coin) \o ": " \o text]

\* build_focused_response, lines 667-759: the collaborator called for a
\* resolved pair, and the report made of its answer
FocusedFetch(intent, coin, id, r, sentiment_reply) ==
    IF intent \in {"PRICE", "PERFORMANCE"}
    THEN Bind(get_coin_details(id, r.details), LAMBDA details :
             [call |-> Call("Market", "get_coin_details", intent, coin, details.status),
              report |-> IF details.status = "success"
                         THEN Report(intent, coin, "data",
                                     IF intent = "PRICE" THEN "$" \o details.current_price
                                     ELSE "performance: 24h: +1.20%")
                         ELSE Report(intent, coin, "unavailable",
                                     IF intent = "PRICE" THEN "Price unavailable."
                                     ELSE "Performance data unavailable.")])
    ELSE IF intent = "SENTIMENT"
    THEN Bind(get_social_sentiment(coin, sentiment_reply), LAMBDA sentiment :
             [call |-> Call("Sentiment", "get_social_sentiment", intent, coin,
                            sentiment.status),
              report |-> IF sentiment.status = "success"
                         THEN Report(intent, coin, "data",
                                     "Twitter sentiment: " \o sentiment.summary)
                         ELSE Report(intent, coin, "unavailable",
                                     "Twitter sentiment unavailable.")])
    ELSE IF intent \in {"ONCHAIN", "TRADING_PATTERN"}
    THEN Bind(get_smart_money_flow(coin, r), LAMBDA nansen :
             [call |-> Call("Flow", "get_smart_money_flow", intent, coin, nansen.status),
              report |-> IF intent = "TRADING_PATTERN"
                         THEN Report(intent, coin, "unavailable",
                                     "No trading pattern data available for this coin right now.")
                         ELSE IF nansen.status = "success"
                         THEN Report(intent, coin, "data",
                                     "smart money: "
                                     \o (IF Truthy(Get(nansen.message)) THEN nansen.message
                                         ELSE "None"))
                         ELSE Report(intent, coin, "unavailable",
                                     "Smart money data unavailable.")])
    ELSE Bind(get_coin_details(id, r.details), LAMBDA details :
             [call |-> Call("Market", "get_coin_details", intent, coin, details.status),
              report |-> IF details.status = "success"
                         THEN [Report(intent, coin, "data", "") EXCEPT !.text = details.result]
                         ELSE Report(intent, coin, "unavailable", "Data unavailable.")])

\* the answers of providers that answer as usual
UsualReplies == Replies("results", "ok", "flow", TokenReply("flow", "flow", "flow", "flow"))

\* the answers of the providers consulted for a pair after the resolver;
\* the providers a pair does not consult are left at their usual answers
Answers(intent, id) ==
    IF NotFound(id) THEN {[r |-> UsualReplies, sentiment |-> "tweets"]}
    ELSE IF intent = "SENTIMENT"
    THEN {[r |-> UsualReplies, sentiment |-> s] : s \in SentimentReplies}
    ELSE IF intent \in {"ONCHAIN", "TRADING_PATTERN"}
    THEN {[r |-> r, sentiment |-> "tweets"] : r \in FlowEnv}
    ELSE {[r |-> [UsualReplies EXCEPT !.details = d], sentiment |-> "tweets"] :
             d \in DetailReplies}

\* build_focused_response, lines 663-759: one iteration of the loop over
\* the pairs; the first follows line 1227
FocusedPair(resolver_reply) ==
    /\ \/ /\ pc = "DISPATCH"
          /\ ~extraction.is_greeting
          /\ ~extraction.is_general_analysis
          /\ extraction.pairs # <<>>
       \/ pc = "FOCUSED"
    /\ \E intent \in {extraction.pairs[Len(responses) + 1][1]} :
       \E coin \in {extraction.pairs[Len(responses) + 1][2]} :
       \E id \in {search_coin_id(coin, resolver_reply)} :
       \E resolved \in {Call("Resolver", "search_coin_id", intent, coin, id)} :
           /\ coin_id' = id
           /\ IF NotFound(id)
              THEN /\ responses' = Append(responses,
                                          Report(intent, coin, "not_found",
                                                 "Not found on CoinGecko."))
                   /\ calls' = Append(calls, resolved)
                   /\ Enter("RESOLVE")
              ELSE \E answer \in Answers(intent, id) :
                   \E fetched \in {FocusedFetch(intent, coin, id, answer.r,
                                                answer.sentiment)} :
                      /\ responses' = Append(responses, fetched.report)
                      /\ calls' = calls \o <<resolved, fetched.call>>
                      /\ stages' = stages \o <<"RESOLVE", "FETCH">>
    /\ pc' = IF Len(responses) + 1 = Len(extraction.pairs) THEN "JOIN" ELSE "FOCUSED"
    /\ UNCHANGED <<tool_run, mode, conversation, context, exchanges, user_input, extraction,
                   intent_data, coin_details, smart_money_data, social_data,
                   additional_data, output>>

disclaimer == "Disclaimer: This is not financial advice."

RECURSIVE JoinLines(_)
\* "\n".join(lines)
JoinLines(lines) ==
    IF lines = <<>> THEN ""
    ELSE IF Len(lines) = 1 THEN lines[1]
    ELSE lines[1] \o "\n" \o JoinLines(Tail(lines))

\* build_focused_response, lines 760-762, and lines 1228-1230 of main: the
\* reports are joined and printed, the exchange is appended
FocusedRespond ==
    /\ pc = "JOIN"
    /\ stages' = stages \o <<"MERGE", "RESPOND">>
    /\ EndTurn("focused",
               JoinLines([k \in 1..Len(responses) |-> responses[k].text]
                         \o (IF extraction.advice THEN <<disclaimer>> ELSE <<>>)))
    /\ AppendExchange
    /\ UNCHANGED <<tool_run, mode, context, user_input, extraction, intent_data, coin_id,
                   coin_details, smart_money_data, social_data, additional_data,
                   responses, calls>>

(***************************************************************************)
(* api_main.py: the content screen, /conversation and /analysis            *)
(***************************************************************************)
\* api_main.py lines 110-114
PROHIBITED_KEYWORDS ==
    {
        "sexcoin", "titcoin", "porncoin", "clitcoin", "analcoin", "dickcoin",
        "pussycoin", "cumrocket", "cumcoin", "asscoin", "fapcoin", "boobcoin",
        "vaginacoin", "milfcoin", "hustlercoin", "xxxcoin", "porn", "sex",
        "rape", "child", "pedo", "incest", "loli", "lolita", "cp", "nsfw",
        "explicit", "nude", "nudes", "escort", "prostitute", "prostitution",
        "nazi", "hitler", "kkk", "white power", "heil", "racist", "slur",
        "lynch", "genocide", "holocaust", "antisemitic", "antiblack",
        "antigay", "homophobic", "transphobic", "islamophobic", "jewish slur",
        "hate crime", "terror", "terrorist", "bomb", "shoot", "murder", "kill",
        "assassinate", "massacre", "school shooting", "gun violence", "drug",
        "cocaine", "heroin", "meth", "fentanyl", "scam", "fraud", "hack",
        "exploit", "phishing", "malware", "ransomware", "darkweb", "dark web",
        "illegal", "counterfeit", "money laundering", "launder", "traffick",
        "human trafficking", "organ trafficking"
    }

\* api_main.py line 127
AMBIGUOUS_KEYWORDS ==
    {
        "controversial", "taboo", "offensive", "inappropriate", "nsfw",
        "illegal", "banned", "forbidden", "unethical", "problematic", "hate",
        "racist", "sex", "explicit", "adult"
    }

\* is_prohibited_content, line 155: the terms of a legitimate crypto query
crypto_indicators ==
    {
        "price", "market", "cap", "volume", "change", "performance", "chart",
        "token", "coin", "crypto", "blockchain", "defi", "nft", "mining",
        "staking", "yield", "liquidity", "swap", "trade", "buy", "sell",
        "hodl", "moon", "pump", "dump", "bull", "bear", "altcoin", "meme",
        "utility", "use case", "adoption", "partnership", "development",
        "roadmap", "whitepaper", "tokenomics", "circulating", "supply", "burn",
        "mint", "governance", "dao", "smart contract", "gas", "fee",
        "transaction", "wallet", "exchange", "dex", "cex", "amm",
        "liquidity pool", "yield farming", "lending", "borrowing",
        "collateral", "oracle", "bridge", "layer", "scaling", "consensus",
        "proof", "validator", "node", "network", "protocol", "dapp", "web3",
        "metaverse", "gamefi", "play to earn", "move to earn", "learn to earn",
        "socialfi", "creator economy", "royalties", "fractional", "synthetic",
        "derivative", "futures", "options", "perpetual", "leverage", "margin",
        "short", "long", "hedge", "arbitrage", "front running", "mev",
        "sandwich", "flash loan", "reentrancy", "rug pull", "honeypot", "scam",
        "legitimate", "audit", "security", "vulnerability", "exploit", "hack",
        "theft", "recovery", "insurance", "regulation", "compliance", "kyc",
        "aml", "tax", "reporting", "legal", "illegal", "banned", "restricted",
        "geoblocked", "vpn", "privacy", "anonymous", "pseudonymous",
        "transparent", "immutable", "decentralized", "centralized",
        "permissionless", "permissioned", "public", "private", "consortium",
        "hybrid", "sidechain", "rollup", "sharding", "fork", "upgrade",
        "hard fork", "soft fork", "backward compatible", "breaking change",
        "migration", "airdrop", "claim", "vesting", "lockup", "unlock",
        "release", "distribution", "allocation", "team", "foundation",
        "treasury", "reserve", "backing", "collateralized", "algorithmic",
        "stablecoin", "pegged", "floating", "volatile", "correlation", "beta",
        "alpha", "sharpe ratio", "risk", "reward", "volatility", "depth",
        "spread", "slippage", "impact", "market maker", "order book",
        "limit order", "market order", "stop loss", "take profit", "dca",
        "diamond hands", "paper hands", "fomo", "fud", "shill", "moonboy",
        "maxi", "fanboy", "hater", "skeptic", "believer", "adopter", "early",
        "late", "shark", "minnow", "dolphin", "octopus", "squid", "ape",
        "diamond", "paper", "rocket", "mars", "jupiter", "saturn", "uranus",
        "neptune", "pluto", "galaxy", "universe", "cosmos", "polkadot",
        "cardano", "solana", "avalanche", "polygon", "binance", "coinbase",
        "kraken", "kucoin", "okx", "bybit", "huobi", "gate", "mexc", "bitget",
        "whitebit", "bitfinex", "gemini", "ftx", "celsius", "voyager",
        "blockfi", "nexo", "crypto.com", "robinhood", "webull", "etoro",
        "tradingview", "coingecko", "coinmarketcap", "messari", "glassnode",
        "santiment", "lunar", "intotheblock", "skew", "deribit", "okex",
        "bitmex"
    }

\* line 168: the terms that excuse "hack", "scam", "fraud" and "exploit"
security_terms ==
    {
        "security", "audit", "vulnerability", "protection", "prevention",
        "detection", "analysis", "report", "news", "alert", "warning", "risk",
        "safety"
    }

\* is_prohibited_content(user_input): lines 150-170: the keyword pass.  The
\* regular expressions and the fuzzy pass that follow flag texts made of the
\* same keywords and their misspellings
is_prohibited_content(input) ==
    LET text == Lower(input)
        has_crypto_context == \E indicator \in crypto_indicators : Contains(text, indicator)
        excused(word) ==
            /\ word \in {"hack", "scam", "fraud", "exploit"}
            /\ has_crypto_context
            /\ \E crypto_term \in security_terms : Contains(text, crypto_term)
    IN  \E word \in PROHIBITED_KEYWORDS : Contains(text, word) /\ ~excused(word)

\* is_ambiguous_content(user_input): lines 195-201
is_ambiguous_content(input) ==
    \E word \in AMBIGUOUS_KEYWORDS : Contains(Lower(input), word)

\* the messages a client posts to /conversation
Messages == {"gm naomi", "what is defi", "something illegal", "is this taboo"}

\* a client posts a message to /conversation with the context of the last
\* answer
PostConversation(message) ==
    /\ mode = "api"
    /\ pc = "IDLE"
    /\ exchanges < MaxExchanges
    /\ FreshTurn
    /\ user_input' = message
    /\ stages' = <<"START">>
    /\ pc' = "CONVERSATION"
    /\ UNCHANGED <<tool_run, mode, conversation, context, exchanges>>

\* lines 479-517: handle_conversation_endpoint
ConversationEndpoint ==
    /\ pc = "CONVERSATION"
    /\ pc' = "IDLE"
    /\ IF is_prohibited_content(user_input)
       THEN /\ output' = Output("rejected", "Content violates safety policies")
            /\ UNCHANGED <<context, exchanges, calls>>
       ELSE IF is_ambiguous_content(user_input)
       THEN /\ output' = Output("rejected", "Could you please clarify your question?")
            /\ UNCHANGED <<context, exchanges, calls>>
       ELSE \E reply \in LLMReplies :
               /\ output' = Output("conversation",
                                   handle_conversation(user_input, reply))
               /\ calls' = <<Call("LLM", "handle_conversation", "CONVERSATION",
                                  Null, reply)>>
               /\ context' = LimitHistory(context \o Exchange(exchanges + 1))
               /\ exchanges' = exchanges + 1
    /\ UNCHANGED <<tool_run, mode, conversation, user_input, extraction, intent_data, coin_id,
                   coin_details, smart_money_data, social_data, additional_data,
                   responses, stages>>

\* the symbols and intents a client posts to /analysis
Requests == {[symbol |-> s, intent |-> i] : s \in Symbols, i \in RequestIntents}

\* a client posts a symbol and an intent to /analysis
PostAnalysis(request) ==
    /\ mode = "api"
    /\ pc = "IDLE"
    /\ user_input' = request.symbol
    /\ extraction' = NoExtraction
    /\ intent_data' = [intent |-> IF Truthy(request.intent) THEN request.intent
                                  ELSE "GENERAL",
                       coin_query |-> request.symbol, timeframe |-> Null]
    /\ coin_id' = Null
    /\ coin_details' = NoDetails
    /\ smart_money_data' = NoFlow
    /\ social_data' = NoSocial
    /\ additional_data' = <<>>
    /\ responses' = <<>>
    /\ calls' = <<>>
    /\ output' = NoOutput
    /\ stages' = <<"START">>
    /\ pc' = "A_RESOLVE"
    /\ UNCHANGED <<tool_run, mode, conversation, context, exchanges>>

\* lines 520-545 of comprehensive_analysis: the symbol is screened and
\* resolved and the coin details are fetched, each failure answered with
\* an error
AnalysisResolve ==
    /\ pc = "A_RESOLVE"
    /\ IF is_prohibited_content(user_input)
       THEN /\ EndTurn("rejected", "Content violates safety policies")
            /\ UNCHANGED <<stages, calls, coin_id, coin_details>>
       ELSE \E resolver_reply \in SearchReplies :
            \E id \in {search_coin_id(user_input, resolver_reply)} :
            \E resolved \in {Call("Resolver", "search_coin_id", intent_data.intent,
                                  user_input, id)} :
                   /\ coin_id' = id
                   /\ IF NotFound(id)
                      THEN /\ Enter("RESOLVE")
                           /\ calls' = <<resolved>>
                           /\ coin_details' = coin_details
                           /\ EndTurn("error", "Coin '" \o user_input \o "' not found")
                      ELSE \E reply \in DetailReplies :
                           \E details \in {get_coin_details(id, reply)} :
                                  /\ stages' = stages \o <<"RESOLVE", "FETCH">>
                                  /\ calls' = <<resolved,
                                                Call("Market", "get_coin_details",
                                                     intent_data.intent, user_input,
                                                     details.status)>>
                                  /\ coin_details' = details
                                  /\ IF details.status # "success"
                                     THEN EndTurn("error", details.result)
                                     ELSE pc' = "A_FLOW" /\ output' = output
    /\ UNCHANGED <<tool_run, mode, conversation, context, exchanges, user_input, extraction,
                   intent_data, smart_money_data, social_data, additional_data,
                   responses>>

\* lines 557-571: the flow lookup of /analysis, none when the asset is
\* native and the native lookup fails
ApiFlowCalls(symbol, d, r) ==
    IF d.is_native_asset /\ Truthy(d.chain) /\ Lower(d.chain) # "unknown"
    THEN Bind(get_native_asset_smart_money_flow(d.chain, r.flow), LAMBDA first :
         LET native == [fn |-> "get_native_asset_smart_money_flow", data |-> first]
         IN  IF first.status = "error"
                /\ Contains(first.result, "not supported for native asset")
             THEN <<native,
                    [fn |-> "inline",
                     data |-> [FlowDict("success",
                                   "Smart money flow data not available for "
                                   \o Upper(symbol) \o " on " \o d.chain)
                               EXCEPT !.fallback = TRUE]]>>
             ELSE <<native>>)
    ELSE IF Truthy(d.chain) /\ Lower(d.chain) # "unknown" /\ Truthy(d.contract_address)
    THEN <<[fn |-> "get_token_smart_money_flow",
            data |-> get_token_smart_money_flow(d.chain, d.contract_address, r.token)]>>
    ELSE <<[fn |-> "get_smart_money_flow", data |-> get_smart_money_flow(symbol, r)]>>

\* lines 555-590: the smart money data, the social sentiment and the data
\* summary
AnalysisFetch(r, sentiment_reply) ==
    /\ pc = "A_FLOW"
    /\ \E symbol \in {intent_data.coin_query} :
       \E made \in {ApiFlowCalls(symbol, coin_details, r)} :
       \E social \in {get_social_sentiment(symbol, sentiment_reply)} :
           /\ smart_money_data' = made[Len(made)].data
           /\ social_data' = social
           /\ calls' = calls
                        \o [k \in 1..Len(made) |->
                               Call("Flow", made[k].fn, intent_data.intent, symbol,
                                    made[k].data.status)]
                        \o <<Call("Sentiment", "get_social_sentiment",
                                  intent_data.intent, symbol, social.status)>>
    /\ Enter("MERGE")
    /\ pc' = "A_NARRATE"
    /\ UNCHANGED <<tool_run, mode, conversation, context, exchanges, user_input, extraction,
                   intent_data, coin_id, coin_details, additional_data, responses,
                   output>>

\* lines 593-630: the completion, the charts and the answer; an exception
\* of either is answered with HTTP 500
AnalysisNarrate(reply) ==
    /\ pc = "A_NARRATE"
    /\ calls' = Append(calls, Call("LLM", "chat_completion", intent_data.intent,
                                   intent_data.coin_query, reply))
    /\ \E response \in {chat_completion(reply)} :
       \E summary \in {"Naomi: " \o DataSummary(coin_details, intent_data.coin_query)
                        \o " Pretty wild times in crypto, right?"} :
           IF response.raised # Null
           THEN /\ Enter("NARRATE")
                /\ EndTurn("http_500",
                           "Comprehensive analysis failed: " \o response.raised)
           ELSE IF api_generate_simple_charts(smart_money_data) # Null
           THEN /\ Enter("NARRATE")
                /\ EndTurn("http_500",
                           "Comprehensive analysis failed: "
                           \o api_generate_simple_charts(smart_money_data))
           ELSE /\ stages' = stages \o <<"NARRATE", "RESPOND">>
                /\ IF response.choices THEN EndTurn("analysis", response.content)
                   ELSE EndTurn("summary", summary)
    /\ UNCHANGED <<tool_run, mode, conversation, context, exchanges, user_input, extraction,
                   intent_data, coin_id, coin_details, smart_money_data, social_data,
                   additional_data, responses>>

Next ==
    \/ \E u \in Utterances : ReadInput(u)
    \/ Extract
    \/ Greet
    \/ GeneralClassify
    \/ \E reply \in LLMReplies : Converse(reply)
    \/ ClarifyGeneral
    \/ \E reply \in SearchReplies : ResolveGeneral(reply)
    \/ \E reply \in DetailReplies : FetchMarket(reply)
    \/ \E r \in FlowEnv : FetchFlow(r)
    \/ \E reply \in SentimentReplies : FetchSentiment(reply)
    \/ \E reply \in DetailReplies : FetchPerformance(reply)
    \/ Merge
    \/ \E reply \in LLMReplies : Narrate(reply)
    \/ ClarifyNoPairs
    \/ \E reply \in SearchReplies : FocusedPair(reply)
    \/ FocusedRespond
    \/ \E message \in Messages : PostConversation(message)
    \/ ConversationEndpoint
    \/ \E request \in Requests : PostAnalysis(request)
    \/ AnalysisResolve
    \/ \E r \in FlowEnv, s \in SentimentReplies : AnalysisFetch(r, s)
    \/ \E reply \in LLMReplies : AnalysisNarrate(reply)

Spec == Init /\ [][Next]_vars

(***************************************************************************)
(* What a finished turn shows                                              *)
(***************************************************************************)
\* the turn or request has ended and the session is back at the prompt
TurnEnded == pc = "IDLE" /\ stages # <<>>

\* the positions of the calls made to a collaborator in the turn
CallsTo(fetcher) == {k \in DOMAIN calls : calls[k].fetcher = fetcher}

Fetchers == {"Market", "Flow", "Sentiment"}

\* the turn called the text completion for the analysis of a coin
Narrated == \E k \in DOMAIN calls : calls[k].fn = "chat_completion"

\* C1: once the digest of a resolved coin is built, every outcome of the
\* completion ends the turn with non-empty text that is not an error: the
\* completion when it is non-trivial, the templated summary otherwise.
C1_NarrationAlwaysAnswers ==
    (TurnEnded /\ Narrated) =>
        /\ output.kind \in {"analysis", "summary"}
        /\ output.text # ""
        /\ output.kind = "analysis" => Len(Strip(output.text)) > MinContentLen

\* C2: in a full-synthesis turn of the command line, once the coin is
\* resolved and the fetching has begun, no failing fetcher ends the turn: the
\* three fetchers are called, the digest has a line for the flow and for the
\* sentiment source, and the turn reaches NARRATE.
C2_FetcherFailureNeverEndsTurn ==
    (mode = "cli" /\ TurnEnded /\ extraction.is_general_analysis
     /\ "FETCH" \in Range(stages)) =>
        /\ \A f \in Fetchers : CallsTo(f) # {}
        /\ \E k \in DOMAIN additional_data :
               MatchAt(additional_data[k], 1, "Smart Money Analytics")
        /\ \E k \in DOMAIN additional_data :
               MatchAt(additional_data[k], 1, "Social Sentiment")
        /\ "NARRATE" \in Range(stages)

\* C3: between turns the conversation list of the command line and the
\* context returned by /conversation hold at most 10 entries.
C3_WindowNeverExceedsTen ==
    pc = "IDLE" => Len(conversation) <= WindowSize /\ Len(context) <= WindowSize

\* C4: a step that appends an exchange to a window of 10 entries leaves the
\* former entries 3..10 in order followed by the new user and assistant
\* entries.
C4_AppendEvictsOldestPair ==
    [][/\ (Len(conversation) = WindowSize /\ conversation' # conversation) =>
              conversation' = SubSeq(conversation, 3, WindowSize) \o Exchange(exchanges + 1)
       /\ (Len(context) = WindowSize /\ context' # context) =>
              context' = SubSeq(context, 3, WindowSize) \o Exchange(exchanges + 1)]_vars

(***************************************************************************)
(* Greetings, clarification and the order of the stages                     *)
(***************************************************************************)
\* the utterance, lowered and stripped, begins with a greeting pattern
\* that ends at a word boundary
MatchesGreetingPattern ==
    \E k \in DOMAIN greeting_patterns :
        LET text == Strip(Lower(user_input))
            pat == greeting_patterns[k]
        IN  /\ Len(text) >= Len(pat)
            /\ SubSeq(text, 1, Len(pat)) = pat
            /\ BoundaryAfter(text, Len(pat))

Extracted == mode = "cli" /\ stages # <<>> /\ pc # "EXTRACT"

C6_EmptyPairsClarify ==
    (mode = "cli" /\ TurnEnded /\ ~extraction.is_greeting /\ extraction.pairs = <<>>) =>
        /\ stages = <<"START", "CLASSIFY", "CLARIFY_TERMINAL">>
        /\ output = Output("clarify", clarify_text)
        /\ calls = <<>>

FullChain == <<"START", "CLASSIFY", "RESOLVE", "FETCH", "MERGE", "NARRATE", "RESPOND">>

IsPrefix(s, t) == Len(s) <= Len(t) /\ s = SubSeq(t, 1, Len(s))

\* C7: every turn runs START, CLASSIFY and then GREETING_TERMINAL, or
\* CLARIFY_TERMINAL, or RESOLVE, FETCH, MERGE, NARRATE, RESPOND in that
\* order (a turn that a failure ends early has run a prefix of that
\* chain); a turn that fetched data passes through NARRATE before RESPOND.
C7_StagesInOrder ==
    (mode = "cli" /\ TurnEnded) =>
        \/ stages = <<"START", "CLASSIFY", "GREETING_TERMINAL">>
        \/ stages = <<"START", "CLASSIFY", "CLARIFY_TERMINAL">>
        \/ /\ Len(stages) > 2
           /\ IsPrefix(stages, FullChain)

(***************************************************************************)
(* The resolver and the fetchers of a pair                                  *)
(***************************************************************************)
ResolverCalls == CallsTo("Resolver")

\* the calls made on behalf of the pair resolved by call k: those up to
\* the next call of the resolver
CallsFor(k) ==
    {j \in DOMAIN calls :
        /\ j > k
        /\ calls[j].fetcher \in Fetchers
        /\ \A r \in ResolverCalls : r > k => j < r}

FetchersOf(intent) ==
    CASE intent = "PRICE" -> {"Market"}
      [] intent = "ONCHAIN" -> {"Flow"}
      [] intent = "SENTIMENT" -> {"Sentiment"}
      [] intent = "GENERAL" -> Fetchers

\* C8: for each resolved (intent, coin) pair exactly the fetchers of the
\* intent are called: PRICE only Market, ONCHAIN only Flow, SENTIMENT only
\* Sentiment, GENERAL all three.
C8_FetchersOfTheIntent ==
    (mode = "cli" /\ TurnEnded /\ output.kind = "focused") =>
        \A k \in ResolverCalls :
            (calls[k].ret # Null
             /\ calls[k].intent \in {"PRICE", "ONCHAIN", "SENTIMENT", "GENERAL"}) =>
                {calls[j].fetcher : j \in CallsFor(k)} = FetchersOf(calls[k].intent)

\* C9: a Market, Flow or Sentiment fetch for a coin happens only after the
\* resolver returned a non-null id for that coin earlier in the same turn:
\* the last resolver call before the fetch is for the coin of the fetch and
\* did not return null.
C9_FetchOnlyAfterResolution ==
    \A j \in DOMAIN calls :
        calls[j].fetcher \in Fetchers =>
            \E k \in ResolverCalls :
                /\ k < j
                /\ \A r \in ResolverCalls : r < j => r <= k
                /\ calls[k].coin = calls[j].coin
                /\ calls[k].ret # Null

\* a turn in which the resolver returned null for one coin, no fetcher was
\* called for it, and another coin was resolved and fetched
C9_Witness ==
    /\ TurnEnded
    /\ \E k \in ResolverCalls :
           /\ calls[k].ret = Null
           /\ CallsFor(k) = {}
    /\ \E k \in ResolverCalls :
           /\ calls[k].ret # Null
           /\ CallsFor(k) # {}

\* C10: in a turn with several pairs in which the resolver cannot resolve
\* a coin, that pair is reported as not found and nothing is fetched for
\* it, and every other pair is still resolved and, when its coin
\* resolves, fetched and reported in the same turn.
C10_UnresolvedPairDoesNotAbortOthers ==
    (/\ mode = "cli"
     /\ TurnEnded
     /\ Len(extraction.pairs) >= 2
     /\ \E k \in ResolverCalls : calls[k].ret = Null) =>
        \A i \in DOMAIN extraction.pairs :
            \E k \in ResolverCalls :
                /\ calls[k].coin = extraction.pairs[i][2]
                /\ calls[k].ret = Null => CallsFor(k) = {}
                /\ calls[k].ret # Null => CallsFor(k) # {}

(***************************************************************************)
(* Exceptions inside a turn                                                 *)
(***************************************************************************)
\* the exception types a turn of the model can raise
ExceptionNames ==
    {"UnboundLocalError", "TypeError", "TimeoutError", "ConnectionError", "Exception"}

\* what only the report of a raw error carries: the type of an exception,
\* its message or a traceback
RawErrorTexts ==
    ExceptionNames \cup {"Traceback", "referenced before assignment", "Error type"}

\* C11: an exception raised inside a turn is caught at the turn boundary
\* and the output of the turn is a generic apologetic message that carries
\* no exception message, no exception type and no stack trace.
C11_NoRawErrorShown ==
    (mode = "cli" /\ TurnEnded) =>
        \A raw \in RawErrorTexts : ~Contains(output.text, raw)

(***************************************************************************)
(* The tool functions called on their own: retry_api_call                   *)
(***************************************************************************)
\* retry_api_call(func, max_retries=3, base_delay=1, max_delay=10,
\* backoff_factor=2): the defaults
DefaultMaxRetries == 3

BaseDelay == 1

MaxDelay == 10

BackoffFactor == 2

\* what one call of func() does: it returns a value or raises
Returns(value) == [raised |-> Null, value |-> value]

Raises(exception) == [raised |-> exception, value |-> Null]

\* a faulty retry_api_call that gives up after the first failure
retry_api_call_once(func, max_retries) ==
    [calls |-> 1, raised |-> func[1].raised, value |-> func[1].value, delays |-> <<>>]

RECURSIVE Power(_, _)
Power(b, e) == IF e = 0 THEN 1 ELSE b * Power(b, e - 1)

RECURSIVE RetryFrom(_, _, _)
\* the loop of retry_api_call from the 0-based attempt on; func is the
\* sequence of what the successive calls of func() do.  The jitter added
\* to a delay is left out.
RetryFrom(func, max_retries, attempt) ==
    IF attempt > max_retries
    THEN [calls |-> attempt, raised |-> Null, value |-> Null, delays |-> <<>>]
    ELSE IF func[attempt + 1].raised = Null
    THEN [calls |-> attempt + 1, raised |-> Null, value |-> func[attempt + 1].value,
          delays |-> <<>>]
    ELSE IF attempt = max_retries
    THEN [calls |-> attempt + 1, raised |-> func[attempt + 1].raised, value |-> Null,
          delays |-> <<>>]
    ELSE \* delay = min(base_delay * (backoff_factor ** attempt), max_delay)
         LET delay == Min({BaseDelay * Power(BackoffFactor, attempt), MaxDelay})
             rest == RetryFrom(func, max_retries, attempt + 1)
         IN  [rest EXCEPT !.delays = <<delay>> \o @]

\* retry_api_call(func, max_retries): the number of calls of func, the
\* value returned or the exception raised, and the delays slept
retry_api_call(func, max_retries) == RetryFrom(func, max_retries, 0)

\* what a wrapped call can do in the runs of retry_api_call
Outcomes ==
    {Returns("first"), Returns("second"), Raises("Timeout"), Raises("ConnectionError")}

\* retry_api_call is called with a function that behaves as func
CallRetry(func, max_retries) ==
    /\ tool_run.fn = "none"
    /\ tool_run' = [fn |-> "retry_api_call", func |-> func, max_retries |-> max_retries,
                    done |-> retry_api_call(func, max_retries)]
    /\ UNCHANGED <<mode, pc, conversation, context, exchanges, user_input, extraction,
                   intent_data, coin_id, coin_details, smart_money_data, social_data,
                   additional_data, responses, stages, calls, output>>


HttpAnswers == {"200", "404", "429", "500", "timeout", "connection"}

\* make_request(): requests.get(...), response.raise_for_status(),
\* response.json(); the exception is named by the failure
make_request(answer) == IF answer = "200" THEN Returns("json") ELSE Raises(answer)

\* the successive calls of make_request() under the successive answers
RequestCalls(answers) == [k \in DOMAIN answers |-> make_request(answers[k])]

\* what is left of a request after retry_api_call: "ok" or the failure
Settled(done, ok) == IF done.raised = Null THEN ok ELSE done.raised

\* search_coin_id, lines 62-70: the query is refused before any request
QueryRefused(query) ==
    \/ ~Truthy(query)
    \/ Strip(query) = ""
    \/ RunLen(Strip(query), 1, AlnumChars \cup {" ", ".", "-"}) # Len(Strip(query))

\* search_coin_id(query) with the requests it sends, the provider
\* answering the successive requests with answers
search_coin_id_requesting(query, answers) ==
    IF QueryRefused(query) THEN [requests |-> 0, result |-> Null]
    ELSE Bind(retry_api_call(RequestCalls(answers), DefaultMaxRetries), LAMBDA done :
             [requests |-> done.calls,
              result |-> search_coin_id(query, IF done.raised = Null THEN "results"
                                               ELSE "error")])

\* get_coin_details, lines 182-187: the id is refused before any request
CoinIdRefused(id) ==
    \/ ~Truthy(id)
    \/ Strip(id) = ""
    \/ ~ValidCoinId(Strip(id))

\* get_coin_details(coin_id) with the requests it sends
get_coin_details_requesting(id, answers) ==
    IF CoinIdRefused(id) THEN [requests |-> 0, result |-> get_coin_details(id, "ok")]
    ELSE Bind(retry_api_call(RequestCalls(answers), DefaultMaxRetries), LAMBDA done :
             [requests |-> done.calls,
              result |-> get_coin_details(id, Settled(done, "ok"))])

\* _fetch_nansen_flow_intelligence, lines 118-136: the arguments are
\* refused before any request
FlowArgsRefused(chain, token_address) ==
    \/ ~Truthy(chain) \/ Strip(chain) = ""
    \/ ~Truthy(token_address) \/ Strip(token_address) = ""
    \/ Lower(chain) \notin valid_chains
    \/ ~ValidTokenAddress(chain, token_address)

\* _fetch_nansen_flow_intelligence(chain, token_address, timeframe) with
\* the requests it sends
fetch_nansen_flow_intelligence_requesting(chain, token_address, answers) ==
    IF FlowArgsRefused(chain, token_address)
    THEN [requests |-> 0,
          result |-> fetch_nansen_flow_intelligence(chain, token_address, "flow")]
    ELSE Bind(retry_api_call(RequestCalls(answers), DefaultMaxRetries), LAMBDA done :
             [requests |-> done.calls,
              result |-> fetch_nansen_flow_intelligence(chain, token_address,
                                                        Settled(done, "flow"))])

\* the scripts of provider answers: the first two requests vary, the
\* later ones are answered like the second
AnswerScripts ==
    {[k \in 1..(DefaultMaxRetries + 1) |-> IF k = 1 THEN a ELSE b] :
        a \in HttpAnswers, b \in HttpAnswers}

\* the queries and ids the functions are called with
Queries == {"", "  ", "btc", " btc", "Bitcoin", "b$tc", "pepe_2", "pepe", "sol.", "foo"}

CoinIds == {"", "  ", "bitcoin", " bitcoin", "bit coin", "pepe", "avalanche-2", "b$tc", "nope"}

FlowTargets ==
    {<<"ethereum", "0x6982508145454ce325ddbe47a25d4ec3d2311933">>,
     <<"solana", "So11111111111111111111111111111111111111112">>,
     <<"binancecoin", "0xbb4cdb9cbd36b01bd1cbaef2af88c6b9364c9a4f">>,
     <<"ethereum", "6982508145454ce325ddbe47a25d4ec3d2311933">>}

ToolUnchanged ==
    UNCHANGED <<mode, pc, conversation, context, exchanges, user_input, extraction,
                intent_data, coin_id, coin_details, smart_money_data, social_data,
                additional_data, responses, stages, calls, output>>

CallSearchCoinId(query, answers) ==
    /\ tool_run.fn = "none"
    /\ tool_run' = [fn |-> "search_coin_id", query |-> query, answers |-> answers,
                    done |-> search_coin_id_requesting(query, answers)]
    /\ ToolUnchanged

CallGetCoinDetails(id, answers) ==
    /\ tool_run.fn = "none"
    /\ tool_run' = [fn |-> "get_coin_details", id |-> id, answers |-> answers,
                    done |-> get_coin_details_requesting(id, answers)]
    /\ ToolUnchanged

CallFlowIntelligence(chain, token_address, answers) ==
    /\ tool_run.fn = "none"
    /\ tool_run' = [fn |-> "_fetch_nansen_flow_intelligence", chain |-> chain,
                    token_address |-> token_address, answers |-> answers,
                    done |-> fetch_nansen_flow_intelligence_requesting(
                                 chain, token_address, answers)]
    /\ ToolUnchanged


\* C13: a not-found answer (HTTP 404) of the coin-detail provider or of the
\* flow-intelligence provider is terminal: the request is sent once, never
\* retried, and the function returns its not-found error.
C13_NotFoundIsNotRetried ==
    (/\ tool_run.fn \in {"get_coin_details", "_fetch_nansen_flow_intelligence"}
     /\ tool_run.done.requests > 0
     /\ tool_run.answers[1] = "404") =>
        /\ tool_run.done.requests = 1
        /\ tool_run.done.result.status = "error"
        /\ \/ Contains(tool_run.done.result.result, "not found on CoinGecko")
           \/ Contains(tool_run.done.result.result, "Unsupported chain or token")

\* a character that is a letter, a digit, whitespace, a dot or a hyphen
QueryChars == AlnumChars \cup {" ", ".", "-"}

\* C14: malformed input is refused before any request: search_coin_id
\* returns null without a request when the query is empty, blank or holds
\* a character other than letters, digits, whitespace, dot and hyphen;
\* get_coin_details returns an error without a request when the id is
\* empty or holds a character other than letters, digits and hyphen.
C14_MalformedInputSendsNoRequest ==
    /\ (/\ tool_run.fn = "search_coin_id"
        /\ \/ Strip(tool_run.query) = ""
           \/ \E k \in 1..Len(tool_run.query) : CharAt(tool_run.query, k) \notin QueryChars) =>
           /\ tool_run.done.requests = 0
           /\ tool_run.done.result = Null
    /\ (/\ tool_run.fn = "get_coin_details"
        /\ \/ tool_run.id = ""
           \/ \E k \in 1..Len(tool_run.id) :
                  CharAt(tool_run.id, k) \notin AlnumChars \cup {"-"}) =>
           /\ tool_run.done.requests = 0
           /\ tool_run.done.result.status = "error"


\* ---------------------------------------------------------------------
\* The ranking of search_coin_id over the candidates of the provider
\* ---------------------------------------------------------------------

\* a candidate as the search endpoint lists it
Candidate(id, symbol, name, asset_platform_id, platforms) ==
    [id |-> id, symbol |-> symbol, name |-> name,
     asset_platform_id |-> asset_platform_id, platforms |-> platforms]

\* the candidates the provider may list for the queries of RankQueries
CandidatePool ==
    { Candidate("pump-fun", "PUMP", "Pump.fun", Null, [solana |-> "pumpCmXq"]),
      Candidate("pump", "pmp", "Pump Token", Null, NoPlatforms),
      Candidate("pumpkin", "pkn", "Pumpkin", "ethereum", NoPlatforms),
      Candidate("dog", "dog", "pump", Null, NoPlatforms),
      Candidate("zed", "zed", "Zed", Null, [ethereum |-> "0xzed"]),
      Candidate("yak", "yak", "Yak", Null, [solana |-> ""]),
      Candidate("pump-fun-2", "pf2", "PF Two", "solana", NoPlatforms),
      Candidate("PUMP", "pp", "Pp", Null, [solana |-> "pumpPP"]) }

MaxCandidates == 3

CandidateLists == UNION { [1..n -> CandidatePool] : n \in 0..MaxCandidates }

RankQueries == {"pump", "Pump.Fun"}

\* the ranking of search_coin_id applied to one list of candidates
CallRankedCoinId(query, coins) ==
    /\ tool_run.fn = "none"
    /\ \E id \in {RankedCoinId(query, coins)} :
          tool_run' = [fn |-> "RankedCoinId", query |-> query, coins |-> coins,
                       done |-> id]
    /\ ToolUnchanged

\* lines 97-103: a candidate of a preferred chain (Solana or Ethereum)
IsPreferredChain(c) ==
    \/ \E chain \in {"solana", "ethereum"} :
          chain \in DOMAIN c.platforms /\ c.platforms[chain] \notin {"", Null}
    \/ c.asset_platform_id \in {"solana", "ethereum"}

\* the rule a candidate meets at a step of the ranking, where withDashes says
\* whether the variant step also looks for the query with its dots turned
\* into hyphens (lines 112 and 136)
MeetsStep(step, c, q, anyPreferred, withDashes) ==
    LET id == Lower(c.id)
        contained == Contains(id, q) \/ (withDashes /\ Contains(id, DotsToDashes(q)))
    IN  CASE step = 1  -> Lower(c.symbol) = q \/ Lower(c.name) = q
          [] step = 2  -> IsPreferredChain(c) /\ id = q
          [] step = 3  -> IsPreferredChain(c) /\ contained
          [] step = 4  -> IsPreferredChain(c) /\ Lower(c.name) = q
          [] step = 5  -> IsPreferredChain(c) /\ Lower(c.symbol) = q
          [] step = 6  -> IsPreferredChain(c)
          [] step = 7  -> ~anyPreferred /\ id = q
          [] step = 8  -> ~anyPreferred /\ contained
          [] step = 9  -> ~anyPreferred /\ Lower(c.name) = q
          [] step = 10 -> ~anyPreferred /\ Lower(c.symbol) = q
          [] step = 11 -> TRUE

NumSteps == 11

\* the answer is the first candidate of the first step that any candidate meets
FollowsPriority(query, coins, id, withDashes) ==
    LET q == Lower(query)
        anyPreferred == \E i \in DOMAIN coins : IsPreferredChain(coins[i])
        meets(step, i) == MeetsStep(step, coins[i], q, anyPreferred, withDashes)
    IN  IF coins = <<>> THEN id = Null
        ELSE \E step \in 1..NumSteps : \E i \in DOMAIN coins :
                /\ meets(step, i)
                /\ \A j \in 1..(i - 1) : ~meets(step, j)
                /\ \A earlier \in 1..(step - 1) : \A j \in DOMAIN coins : ~meets(earlier, j)
                /\ id = coins[i].id

\* C15 (as amended): the ranking follows the fixed priority -- exact symbol or
\* name among all candidates; then, among the candidates of a preferred chain,
\* exact id, id containing the query or the query with dots turned into
\* hyphens, exact name, exact symbol, first such candidate; then, only when no
\* candidate is of a preferred chain, the same rules among all candidates;
\* then the first candidate; no candidate gives null
C15_RankingFollowsPriority ==
    tool_run.fn = "RankedCoinId" =>
        FollowsPriority(tool_run.query, tool_run.coins, tool_run.done, TRUE)

\* C15 (as stated): the same priority where the variant step only looks for
\* ids that contain the query itself
C15_VariantIsContainmentOnly ==
    tool_run.fn = "RankedCoinId" =>
        FollowsPriority(tool_run.query, tool_run.coins, tool_run.done, FALSE)

\* a ranking where the preferred chain decides against an earlier candidate
\* that contains the query
C15_Witness ==
    /\ tool_run.fn = "RankedCoinId"
    /\ tool_run.query = "pump"
    /\ Len(tool_run.coins) = 3
    /\ tool_run.coins[1].id = "yak"
    /\ tool_run.coins[2].id = "pump"
    /\ tool_run.coins[3].id = "pumpkin"
    /\ tool_run.done = "pumpkin"


\* ---------------------------------------------------------------------
\* Resolving the same query twice
\* ---------------------------------------------------------------------

\* a faulty ranking that takes the candidate it returns out of the list
CandidatesAfterRanking_drained(query, coins) ==
    LET kept(c) == c.id # RankedCoinId(query, coins)
    IN  SelectSeq(coins, kept)

\* search_coin_id, lines 85-151: the candidates as the ranking leaves them.
\* The loops only read coins, sol_eth_coins is a list of its own, and the
\* function assigns no attribute or module variable
CandidatesAfterRanking(query, coins) == coins

\* two resolutions of one query in a row, the second one on what the first
\* one left of the provider's answer
CallResolveTwice(query, coins) ==
    /\ tool_run.fn = "none"
    /\ \E first \in {RankedCoinId(query, coins)} :
       \E left \in {CandidatesAfterRanking(query, coins)} :
          tool_run' = [fn |-> "resolve_twice", query |-> query, coins |-> coins,
                       first |-> first, left |-> left,
                       second |-> RankedCoinId(query, left)]
    /\ ToolUnchanged

NativeCoinIds ==
    {Coins[k].id : k \in {i \in DOMAIN Coins : get_coin_details(Coins[i].id, "ok").is_native_asset}}

\* the answers of the flow provider left after the retries of one request
FlowAnswers == FlowReplies \cup {"connection", "429", "404", "500"}

\* get_native_asset_smart_money_flow on the chain that get_coin_details
\* (line 224) gives the native asset
CallNativeFlow(native, reply) ==
    /\ tool_run.fn = "none"
    /\ \E details \in {get_coin_details(native, "ok")} :
          /\ details.is_native_asset
          /\ tool_run' = [fn |-> "get_native_asset_smart_money_flow",
                          coin_id |-> native, chain |-> details.chain, reply |-> reply,
                          done |-> get_native_asset_smart_money_flow(details.chain, reply)]
    /\ ToolUnchanged

\* the static advisory of get_alternative_native_asset_analytics
IsAdvisory(d) == d.status = "success" /\ d.fallback /\ Truthy(d.result)

\* C17: for every chain the coin details give a native asset, when the chain
\* has no wrapped proxy or the request for the proxy fails, the flow fetch
\* returns the advisory (status success, fallback flag, non-empty text)
C17_NativeFlowFallsBack ==
    tool_run.fn = "get_native_asset_smart_money_flow" =>
        LET chain == Lower(tool_run.chain)
            noProxy == chain \notin DOMAIN native_asset_addresses
            failed == tool_run.reply \notin {"flow", "nodata"}
        IN  (noProxy \/ failed) => IsAdvisory(tool_run.done)


\* ---------------------------------------------------------------------
\* The flows of a token over the three timeframes, with their amounts
\* ---------------------------------------------------------------------

\* an optional number: None, or a number that is present
NoNumber == [present |-> FALSE, value |-> 0]

Number(n) == [present |-> TRUE, value |-> n]

Abs(n) == IF n < 0 THEN 0 - n ELSE n

\* three digits of a group behind a thousands separator
Group3(n) ==
    (IF n < 10 THEN "00" ELSE IF n < 100 THEN "0" ELSE "") \o ToString(n)

\* f"{n / unit:,.2f}" for an integer n and a unit of 1, 1000 or 1000000;
\* the amounts of Netflows are below 2^31 / 100 and have no tie at the second
\* decimal
Fixed2(n, unit) ==
    LET scaled == Abs(n) * 100
        quotient == scaled \div unit
        rest == scaled % unit
        hundredths == IF 2 * rest > unit \/ (2 * rest = unit /\ quotient % 2 = 1)
                      THEN quotient + 1 ELSE quotient
        whole == hundredths \div 100
        cents == hundredths % 100
    IN  (IF n < 0 THEN "-" ELSE "")
        \o (IF whole >= 1000
            THEN ToString(whole \div 1000) \o "," \o Group3(whole % 1000)
            ELSE ToString(whole))
        \o "." \o (IF cents < 10 THEN "0" ELSE "") \o ToString(cents)

\* _fetch_nansen_flow_intelligence, lines 181-186: the text of a netflow
flow_str(netflow_usd) ==
    IF Abs(netflow_usd) >= 1000000 THEN "$" \o Fixed2(netflow_usd, 1000000) \o "M"
    ELSE IF Abs(netflow_usd) >= 1000 THEN "$" \o Fixed2(netflow_usd, 1000) \o "K"
    ELSE "$" \o Fixed2(netflow_usd, 1)

\* a faulty advice that reads every netflow as an inflow
get_smart_money_advice_buying(netflow_usd, profitable_trader_flow, profitable_investor_flow) ==
    IF netflow_usd.present THEN "Smart money is accumulating (buying) this token." ELSE ""

\* the sentence of get_smart_money_advice for one optional flow
AdviceOn(flow, buying, selling, still) ==
    IF ~flow.present THEN <<>>
    ELSE IF flow.value > 0 THEN <<buying>>
    ELSE IF flow.value < 0 THEN <<selling>>
    ELSE <<still>>

RECURSIVE JoinSpaces(_)
JoinSpaces(parts) ==
    IF parts = <<>> THEN ""
    ELSE IF Len(parts) = 1 THEN parts[1]
    ELSE parts[1] \o " " \o JoinSpaces(Tail(parts))

\* nansen_tool.get_smart_money_advice
get_smart_money_advice(netflow_usd, profitable_trader_flow, profitable_investor_flow) ==
    JoinSpaces(
        AdviceOn(netflow_usd,
                 "Smart money is accumulating (buying) this token.",
                 "Smart money is distributing (selling) this token.",
                 "No significant smart money movement detected.")
        \o AdviceOn(profitable_trader_flow,
                    "Profitable traders are also buying.",
                    "Profitable traders are selling.",
                    "No significant profitable trader movement detected.")
        \o AdviceOn(profitable_investor_flow,
                    "Profitable investors are buying.",
                    "Profitable investors are selling.",
                    "No significant profitable investor movement detected."))

\* the timeframes of get_token_smart_money_flow (line 619): the label of the
\* bundle and the timeframe asked of the provider
timeframes == <<<<"24h", "1d">>, <<"7d", "7d">>, <<"30d", "30d">>>>

\* the netflows (USD) the provider reports
Netflows == {-2000000, -150000, -3, 0, 3, 150000, 2000000}

\* what the provider holds for one timeframe: its answers to the successive
\* requests, and the payload of a 200 ("entry": a list with one entry,
\* "object": not a list, "empty": an empty list) with the flows of the entry
TimeframeScript(answers, payload, smartTraderFlow, profitableTraderFlow, profitableInvestorFlow) ==
    [answers |-> answers, payload |-> payload, smartTraderFlow |-> smartTraderFlow,
     profitableTraderFlow |-> profitableTraderFlow,
     profitableInvestorFlow |-> profitableInvestorFlow]

Always(answer) == [k \in 1..(DefaultMaxRetries + 1) |-> answer]

TimeframeScripts ==
    {TimeframeScript(Always("200"), "entry", n, NoNumber, NoNumber) :
        n \in Netflows \ {3, -3}}
    \cup {TimeframeScript(Always("200"), "entry", 3, Number(-5), NoNumber),
          TimeframeScript(Always("200"), "entry", -3, NoNumber, Number(7)),
          TimeframeScript(<<"429", "500", "200", "200">>, "entry", 150000,
                          Number(0), Number(0)),
          TimeframeScript(Always("200"), "object", 0, NoNumber, NoNumber),
          TimeframeScript(Always("200"), "empty", 0, NoNumber, NoNumber),
          TimeframeScript(Always("timeout"), "entry", 3, NoNumber, NoNumber),
          TimeframeScript(Always("404"), "entry", 3, NoNumber, NoNumber),
          TimeframeScript(<<"connection", "500", "500", "500">>, "entry", 3,
                          NoNumber, NoNumber)}

\* the provider's holdings for the three timeframes
Providers == [{"1d", "7d", "30d"} -> TimeframeScripts]

\* _fetch_nansen_flow_intelligence(chain, token_address, timeframe), lines
\* 157-195, with the requests it sends and the amounts of the entry
fetch_nansen_flow_intelligence_data(chain, token_address, script) ==
    Bind(retry_api_call(RequestCalls(script.answers), DefaultMaxRetries), LAMBDA done :
    Bind(fetch_nansen_flow_intelligence(
             chain, token_address,
             Settled(done, CASE script.payload = "entry" -> "flow"
                             [] script.payload = "object" -> "nodata"
                             [] script.payload = "empty" -> "empty")),
         LAMBDA f :
             [status |-> f.status,
              result |-> IF f.raw THEN flow_str(script.smartTraderFlow) ELSE f.result,
              raw |-> f.raw,
              netflow_usd |-> IF f.raw THEN Number(script.smartTraderFlow) ELSE NoNumber,
              profitable_trader_flow |->
                  IF f.raw THEN script.profitableTraderFlow ELSE NoNumber,
              profitable_investor_flow |->
                  IF f.raw THEN script.profitableInvestorFlow ELSE NoNumber,
              requests |-> done.calls]))

\* a faulty loop that fills the labels from the timeframes in reverse
TimeframeFlows_reversed(chain, token_address, provider) ==
    [k \in DOMAIN timeframes |->
        fetch_nansen_flow_intelligence_data(
            chain, token_address, provider[timeframes[Len(timeframes) + 1 - k][2]])]

\* a faulty loop that asks the provider for the first timeframe every time
TimeframeFlows_first(chain, token_address, provider) ==
    [k \in DOMAIN timeframes |->
        fetch_nansen_flow_intelligence_data(chain, token_address,
                                            provider[timeframes[1][2]])]

\* get_token_smart_money_flow, lines 619-622: flows[label] of each timeframe
TimeframeFlows(chain, token_address, provider) ==
    [k \in DOMAIN timeframes |->
        fetch_nansen_flow_intelligence_data(chain, token_address,
                                            provider[timeframes[k][2]])]

\* get_token_smart_money_flow(chain, token_address), lines 600-644, with the
\* amounts of its flows and its advice
get_token_smart_money_flow_data(chain, token_address, provider, patterns) ==
    IF FlowArgsRefused(chain, token_address)
    THEN [status |-> "error",
          result |-> get_token_smart_money_flow(
                         chain, token_address,
                         TokenReply("flow", "flow", "flow", patterns)).result,
          flows |-> <<>>, trading_patterns |-> Absent, advice |-> ""]
    ELSE Bind(TimeframeFlows(chain, token_address, provider), LAMBDA flows :
         Bind(fetch_nansen_trading_patterns(chain, token_address, patterns),
              LAMBDA trading_patterns :
         Bind(get_smart_money_advice(flows[1].netflow_usd,
                                     flows[1].profitable_trader_flow,
                                     flows[1].profitable_investor_flow),
              LAMBDA advice :
             [status |-> "success",
              result |-> FlowLine("24h", flows[1]) \o "\n" \o FlowLine("7d", flows[2])
                         \o "\n" \o FlowLine("30d", flows[3])
                         \o "\nTrading patterns: "
                         \o (IF trading_patterns.status = "success" THEN "" ELSE "Error: ")
                         \o trading_patterns.result
                         \o "\nAdvice: " \o advice,
              flows |-> flows, trading_patterns |-> trading_patterns.status,
              advice |-> advice])))

\* the tokens get_token_smart_money_flow is called with, and the answer of
\* the provider to the request for the trading patterns
TokenTargets ==
    {<<"ethereum", "0x6982508145454ce325ddbe47a25d4ec3d2311933", "flow">>,
     <<"ethereum", "0x6982508145454ce325ddbe47a25d4ec3d2311933", "timeout">>,
     <<"Solana", "EKpQGSJtjMFqKZ9KQanSqYXRcF8fBopzLHYxdM65zcjm", "flow">>,
     <<"ethereum", "6982508145454ce325ddbe47a25d4ec3d2311933", "flow">>}

CallTokenFlow(chain, token_address, provider, patterns) ==
    /\ tool_run.fn = "none"
    /\ tool_run' = [fn |-> "get_token_smart_money_flow", chain |-> chain,
                    token_address |-> token_address, provider |-> provider,
                    patterns |-> patterns,
                    done |-> get_token_smart_money_flow_data(
                                 chain, token_address, provider, patterns)]
    /\ ToolUnchanged


\* the request of a script that is answered by a 200, or 0 when none is
FirstOk(answers) ==
    IF \E k \in DOMAIN answers : answers[k] = "200"
    THEN Min({k \in DOMAIN answers : answers[k] = "200"})
    ELSE 0

BundleNetflows(done) ==
    IF /\ done.status = "success"
       /\ \A k \in 1..3 : done.flows[k].status = "success" /\ done.flows[k].netflow_usd.present
    THEN [k \in 1..3 |-> done.flows[k].netflow_usd.value]
    ELSE <<>>

\* C19: when the three timeframes of a token bundle succeeded with a positive
\* netflow the advice speaks of accumulating, and when they succeeded with a
\* negative netflow it speaks of distributing
C19_AdviceFollowsTheSign ==
    tool_run.fn = "get_token_smart_money_flow" =>
        LET netflows == BundleNetflows(tool_run.done)
        IN  netflows # <<>> =>
               /\ (\A k \in 1..3 : netflows[k] > 0) =>
                      Contains(tool_run.done.advice, "accumulating")
               /\ (\A k \in 1..3 : netflows[k] < 0) =>
                      Contains(tool_run.done.advice, "distributing")

\* three outflows of different sizes: the advice speaks of distributing and
\* of the profitable investors
C19_Witness ==
    /\ tool_run.fn = "get_token_smart_money_flow"
    /\ BundleNetflows(tool_run.done) = <<-3, -150000, -2000000>>
    /\ tool_run.done.advice
         = "Smart money is distributing (selling) this token. Profitable investors are buying."


\* ---------------------------------------------------------------------
\* The analysis of the flows of the three timeframes
\* ---------------------------------------------------------------------

\* comprehensive_data[label] of get_comprehensive_smart_money_flow, lines
\* 429-442, as far as generate_smart_money_analysis reads it
TimeframeData(status, netflow_usd) == [status |-> status, netflow_usd |-> netflow_usd]

\* the data of the three timeframes, 24h, 7d and 30d in this order
AnalysisInputs ==
    [1..3 -> {TimeframeData("success", n) : n \in Netflows}
             \cup {TimeframeData("error", 0)}]

\* nansen_tool.generate_smart_money_analysis(data)
generate_smart_money_analysis(data) ==
    LET overall_sentiment ==
            IF data[1].status # "success" THEN "neutral"
            ELSE IF data[1].netflow_usd > 1000000 THEN "very_bullish"
            ELSE IF data[1].netflow_usd > 100000 THEN "bullish"
            ELSE IF data[1].netflow_usd < -1000000 THEN "very_bearish"
            ELSE IF data[1].netflow_usd < -100000 THEN "bearish"
            ELSE "neutral"
        flows == [k \in 1..3 |-> data[k].netflow_usd]
        trend ==
            IF \E k \in 1..3 : data[k].status # "success" THEN "stable"
            ELSE IF flows[1] > flows[2] /\ flows[2] > flows[3] THEN "accelerating_bullish"
            ELSE IF flows[1] > 0 /\ flows[2] > 0 THEN "bullish"
            ELSE IF flows[1] < flows[2] /\ flows[2] < flows[3] THEN "accelerating_bearish"
            ELSE IF flows[1] < 0 /\ flows[2] < 0 THEN "bearish"
            ELSE "stable"
        verdict ==
            IF overall_sentiment = "very_bullish"
               /\ trend \in {"bullish", "accelerating_bullish"}
            THEN <<"Strong buy signal from smart money", "high">>
            ELSE IF overall_sentiment = "bullish"
            THEN <<"Moderate buy signal from smart money", "medium">>
            ELSE IF overall_sentiment = "very_bearish"
                    /\ trend \in {"bearish", "accelerating_bearish"}
            THEN <<"Strong sell signal from smart money", "high">>
            ELSE IF overall_sentiment = "bearish"
            THEN <<"Moderate sell signal from smart money", "medium">>
            ELSE <<"Neutral - monitor for clearer signals", "low">>
    IN  [overall_sentiment |-> overall_sentiment, trend |-> trend,
         recommendation |-> verdict[1], confidence |-> verdict[2]]

CallAnalysis(data) ==
    /\ tool_run.fn = "none"
    /\ tool_run' = [fn |-> "generate_smart_money_analysis", data |-> data,
                    done |-> generate_smart_money_analysis(data)]
    /\ ToolUnchanged

\* C20: when the three timeframes succeeded, the trend is an accelerating one
\* exactly when the magnitudes grow toward the present, |24h| > |7d| > |30d|,
\* and it is accelerating_bullish for inflows, accelerating_bearish for
\* outflows
C20_AcceleratingOnGrowingMagnitudes ==
    (tool_run.fn = "generate_smart_money_analysis"
     /\ \A k \in 1..3 : tool_run.data[k].status = "success") =>
        LET flow(k) == tool_run.data[k].netflow_usd
            growing == Abs(flow(1)) > Abs(flow(2)) /\ Abs(flow(2)) > Abs(flow(3))
            trend == tool_run.done.trend
        IN  /\ growing <=> trend \in {"accelerating_bullish", "accelerating_bearish"}
            /\ trend = "accelerating_bullish" => flow(1) > 0
            /\ trend = "accelerating_bearish" => flow(1) < 0


\* ---------------------------------------------------------------------
\* The profile of a coin and the flow lookup chosen for it
\* ---------------------------------------------------------------------

\* the ids of the coins of the provider
KnownCoinIds == {Coins[k].id : k \in DOMAIN Coins}

\* the functions called, in order, by a flow lookup
FunctionsOf(made) == [k \in DOMAIN made |-> made[k].fn]

\* get_coin_details of a coin followed by the flow lookup of main (lines
\* 945-978) or of comprehensive_analysis (api_main.py, lines 559-572)
CallFlowLookup(id, surface, r) ==
    /\ tool_run.fn = "none"
    /\ \E details \in {get_coin_details(id, "ok")} :
       \E made \in {IF surface = "cli" THEN CliFlowCalls(id, details, r)
                    ELSE ApiFlowCalls(id, details, r)} :
          tool_run' = [fn |-> "flow_lookup", id |-> id, surface |-> surface,
                       details |-> details, made |-> FunctionsOf(made)]
    /\ ToolUnchanged

\* C21: a native profile carries no contract address; a profile that is not
\* native has its chain and its contract address both set or both null; the
\* token flow lookup is called only for a profile that is not native with
\* both set, and a profile that is not native without them is looked up by
\* its symbol
C21_ProfileDecidesTheFlowLookup ==
    tool_run.fn = "flow_lookup" =>
        LET d == tool_run.details
            both == Truthy(d.chain) /\ Truthy(d.contract_address)
            token == \E k \in DOMAIN tool_run.made :
                        tool_run.made[k] = "get_token_smart_money_flow"
        IN  /\ d.status = "success"
            /\ d.is_native_asset => d.contract_address = Null
            /\ ~d.is_native_asset =>
                  /\ (d.chain = Null) <=> (d.contract_address = Null)
                  /\ both => tool_run.made = <<"get_token_smart_money_flow">>
                  /\ ~both => tool_run.made = <<"get_smart_money_flow">>
            /\ token => ~d.is_native_asset /\ both

\* a token whose first supported chain has an empty address: the next one
\* gives chain and address, and the token flow is looked up
C21_Witness ==
    /\ tool_run.fn = "flow_lookup"
    /\ tool_run.id = "ghost"
    /\ tool_run.surface = "cli"
    /\ tool_run.details.chain = "bnb"
    /\ tool_run.details.contract_address = "0x9e8a5b1e4b2cbb1d6a0a1f6b5f0c3d2e1f0a9b8c"
    /\ tool_run.made = <<"get_token_smart_money_flow">>

\* ---------------------------------------------------------------------
\* twitter_tool.get_social_sentiment: the posts, their buckets, the pages
\* ---------------------------------------------------------------------

\* the polarity above which a post is positive and below whose negation it
\* is negative, in hundredths (0.15)
PolarityThreshold == 15

\* polarities of TextBlob in hundredths, the two thresholds among them
Polarities == {-50, -16, -15, 5, 15, 16}

\* the largest number of posts of one analysis
MaxPosts == 2

\* a post as far as lines 178-219 read it: whether its text mentions the
\* token, and the polarity of its cleaned text
Posts == [mentions : BOOLEAN, polarity : Polarities]

PostLists == UNION {[1..n -> Posts] : n \in 0..MaxPosts}

\* a faulty bucketing whose inequalities are not strict
Bucket_inclusive(polarity) ==
    IF polarity >= PolarityThreshold THEN "positive"
    ELSE IF polarity <= 0 - PolarityThreshold THEN "negative"
    ELSE "neutral"

\* lines 199-207: the bucket of a polarity
Bucket(polarity) ==
    IF polarity > PolarityThreshold THEN "positive"
    ELSE IF polarity < 0 - PolarityThreshold THEN "negative"
    ELSE "neutral"

\* lines 179-186: the posts that mention the token, in their order
RECURSIVE FilterMentions(_)
FilterMentions(tweets) ==
    IF tweets = <<>> THEN <<>>
    ELSE (IF Head(tweets).mentions THEN <<Head(tweets)>> ELSE <<>>)
         \o FilterMentions(Tail(tweets))

\* lines 192-207: how many of the posts fall in a bucket
CountBucket(tweets, sentiment) ==
    Cardinality({k \in DOMAIN tweets : Bucket(tweets[k].polarity) = sentiment})

\* round(100 * count / total, 1) of lines 217-219 as Python prints it; the
\* totals of PostLists have no tie at the second decimal
Percent1(count, total) ==
    LET tenths == (2000 * count + total) \div (2 * total)
    IN  ToString(tenths \div 10) \o "." \o ToString(tenths % 10)

\* lines 178-253 of get_social_sentiment for the posts of the pages
AnalysePosts(symbol, fetched_tweets) ==
    LET tweets == FilterMentions(fetched_tweets)
        pos == CountBucket(tweets, "positive")
        neg == CountBucket(tweets, "negative")
        neu == CountBucket(tweets, "neutral")
        total == Max({pos + neg + neu, 1})
    IN  IF tweets = <<>>
        THEN [status |-> "error", summary |-> Absent,
              result |-> "No relevant tweets found for sentiment analysis.",
              pos |-> 0, neg |-> 0, neu |-> 0, total_tweets |-> 0,
              raw_tweets |-> <<>>]
        ELSE [status |-> "success", result |-> Absent,
              summary |-> "Social Sentiment for " \o Upper(symbol) \o "\n"
                          \o "Positive: " \o Percent1(pos, total)
                          \o "%  |  Negative: " \o Percent1(neg, total)
                          \o "%  |  Neutral: " \o Percent1(neu, total) \o "%\n"
                          \o "(Based on " \o ToString(total) \o " recent tweets)\n",
              pos |-> pos, neg |-> neg, neu |-> neu, total_tweets |-> total,
              raw_tweets |-> [k \in DOMAIN tweets |->
                                 [polarity |-> tweets[k].polarity,
                                  sentiment |-> Bucket(tweets[k].polarity)]]]

CallAnalysePosts(fetched_tweets) ==
    /\ tool_run.fn = "none"
    /\ tool_run' = [fn |-> "get_social_sentiment", tweets |-> fetched_tweets,
                    done |-> AnalysePosts("sol", fetched_tweets)]
    /\ ToolUnchanged

\* C22: a post is positive only above 0.15 and negative only below -0.15,
\* neutral otherwise, the two thresholds included; each analysed post has
\* one bucket and the three counts add up to the number of analysed posts
C22_BucketsAreStrict ==
    (tool_run.fn = "get_social_sentiment" /\ tool_run.done.status = "success") =>
        LET raw == tool_run.done.raw_tweets
            in(sentiment) == {k \in DOMAIN raw : raw[k].sentiment = sentiment}
        IN  /\ \A k \in DOMAIN raw :
                  /\ raw[k].sentiment = "positive" <=> raw[k].polarity > 15
                  /\ raw[k].sentiment = "negative" <=> raw[k].polarity < -15
                  /\ raw[k].sentiment = "neutral"
                        <=> (raw[k].polarity >= -15 /\ raw[k].polarity <= 15)
            /\ in("positive") \cap in("negative") = {}
            /\ in("positive") \cup in("negative") \cup in("neutral") = DOMAIN raw
            /\ tool_run.done.pos = Cardinality(in("positive"))
            /\ tool_run.done.neg = Cardinality(in("negative"))
            /\ tool_run.done.neu = Cardinality(in("neutral"))
            /\ tool_run.done.pos + tool_run.done.neg + tool_run.done.neu = Len(raw)
            /\ tool_run.done.total_tweets = Len(raw)
            /\ Len(raw) = Len(FilterMentions(tool_run.tweets))

\* posts at both thresholds were analysed and counted as neutral
C22_Witness ==
    /\ tool_run.fn = "get_social_sentiment"
    /\ tool_run.done.status = "success"
    /\ \E j, k \in DOMAIN tool_run.done.raw_tweets :
           /\ tool_run.done.raw_tweets[j].polarity = 15
           /\ tool_run.done.raw_tweets[k].polarity = -15
    /\ tool_run.done.neu = 2

\* ---------------------------------------------------------------------
\* twitter_tool.get_social_sentiment: the pagination loop, lines 124-176
\* ---------------------------------------------------------------------

\* the largest max_tweets of a call, the largest batch of a page and the
\* number of answers the provider has scripted
MaxTweets == 2

MaxBatch == 2

MaxPages == 3

\* what retry_api_call(make_twitter_request) comes to for one page: a body
\* with a "data" list of size posts and maybe a next_token, a body that is
\* empty or has no "data" key, a 400 on every attempt, or any other failure
\* on every attempt
PageReplies ==
    [kind : {"page"}, size : 0..MaxBatch, next_token : BOOLEAN]
    \cup {[kind |-> k, size |-> 0, next_token |-> FALSE] :
            k \in {"nodata", "bad_request", "failed"}}

PageScripts == [1..MaxPages -> PageReplies]

\* the loop of lines 127-175 from its k-th request on, with len(tweets)
\* posts collected so far (fetched counts the same posts). more tells that
\* the loop asked for a page after the last scripted answer.
RECURSIVE FetchPages(_, _, _, _)
FetchPages(max_tweets, script, k, tweets) ==
    IF ~(tweets < max_tweets)
    THEN [returned |-> Null, requests |-> k - 1, tweets |-> tweets, more |-> FALSE]
    ELSE IF k > Len(script)
    THEN [returned |-> Null, requests |-> k - 1, tweets |-> tweets, more |-> TRUE]
    ELSE LET reply == script[k]
             collected == tweets + reply.size
         IN  CASE reply.kind = "nodata" ->
                    [returned |-> "No social sentiment data available (Twitter API returned no data).",
                     requests |-> k, tweets |-> tweets, more |-> FALSE]
               [] reply.kind = "bad_request" ->
                    [returned |-> "Twitter API query was invalid (400 Bad Request). Please try a different coin or check query construction.",
                     requests |-> k, tweets |-> tweets, more |-> FALSE]
               [] reply.kind = "failed" ->
                    [returned |-> Null, requests |-> k, tweets |-> tweets, more |-> FALSE]
               [] OTHER ->
                    IF ~reply.next_token \/ collected >= max_tweets
                    THEN [returned |-> Null, requests |-> k, tweets |-> collected,
                          more |-> FALSE]
                    ELSE FetchPages(max_tweets, script, k + 1, collected)

\* lines 124-176: the loop from its start, and the posts kept by the slice
\* tweets[:max_tweets]
collect_tweets(max_tweets, script) ==
    LET loop == FetchPages(max_tweets, script, 1, 0)
    IN  [returned |-> loop.returned, requests |-> loop.requests, more |-> loop.more,
         collected |-> loop.tweets,
         kept |-> IF loop.returned = Null THEN Min({loop.tweets, max_tweets}) ELSE 0]

CallCollectTweets(max_tweets, script) ==
    /\ tool_run.fn = "none"
    /\ tool_run' = [fn |-> "collect_tweets", max_tweets |-> max_tweets,
                    script |-> script, done |-> collect_tweets(max_tweets, script)]
    /\ ToolUnchanged

\* C30: whatever the provider answers, the loop stops by itself: it asks
\* for at most max_tweets pages and never for one more than the answers it
\* got, for none once max_tweets posts are collected, and keeps at most
\* max_tweets posts for the analysis
C30_PaginationTerminates ==
    tool_run.fn = "collect_tweets" =>
        /\ ~tool_run.done.more
        /\ tool_run.done.requests <= tool_run.max_tweets
        /\ tool_run.done.kept <= tool_run.max_tweets
        /\ \A k \in 1..(tool_run.done.requests - 1) :
              FetchPages(tool_run.max_tweets, SubSeq(tool_run.script, 1, k), 1, 0).tweets
                  < tool_run.max_tweets

\* the parts of C30 that hold: no page is requested once max_tweets posts
\* are collected, and at most max_tweets posts are kept
C30_NoPageBeyondTheSample ==
    tool_run.fn = "collect_tweets" =>
        /\ tool_run.done.kept <= tool_run.max_tweets
        /\ \A k \in 1..(tool_run.done.requests - 1) :
              FetchPages(tool_run.max_tweets, SubSeq(tool_run.script, 1, k), 1, 0).tweets
                  < tool_run.max_tweets

\* ---------------------------------------------------------------------
\* The charts of a turn
\* ---------------------------------------------------------------------

\* C27: generate_simple_charts never raises: whatever flow result the turn
\* hands to it, on the command line (lines 1066-1075) and in the API
\* (api_main lines 606-614), it returns the text of the charts
C27_ChartsNeverRaise ==
    /\ (mode = "cli" /\ pc = "MERGE") => generate_simple_charts(smart_money_data) = Null
    /\ (mode = "api" /\ pc = "A_NARRATE")
          => api_generate_simple_charts(smart_money_data) = Null

\* generate_simple_charts, lines 407-416 (api_main lines 284-292): the
\* lines of the sentiment section for the text the turn passes, Null
\* standing for None
SentimentSection(social_sentiment) ==
    IF ~Truthy(social_sentiment) THEN <<>>
    ELSE <<"Social Sentiment:",
           IF Contains(Lower(social_sentiment), "positive")
           THEN "Bullish community sentiment"
           ELSE IF Contains(Lower(social_sentiment), "negative")
           THEN "Bearish community sentiment"
           ELSE "Neutral community sentiment",
           "">>

\* line 1074: the summary of a successful sentiment result, None otherwise
SummaryForCharts(social_data_) ==
    IF social_data_.status = "success" THEN social_data_.summary ELSE Null

CallSentimentChart(fetched_tweets) ==
    /\ tool_run.fn = "none"
    /\ \E social \in {AnalysePosts("sol", fetched_tweets)} :
           tool_run' = [fn |-> "generate_simple_charts", social |-> social,
                        section |-> SentimentSection(SummaryForCharts(social))]
    /\ ToolUnchanged

\* C28: for a successful sentiment result the chart shows the bullish line
\* only when the positive posts outnumber the negative ones, the bearish
\* line when the negative ones outnumber the positive, and the neutral line
\* otherwise
C28_ChartLineFollowsTheSentiment ==
    (tool_run.fn = "generate_simple_charts" /\ tool_run.social.status = "success") =>
        /\ Len(tool_run.section) = 3
        /\ tool_run.section[2] = "Bullish community sentiment"
              <=> tool_run.social.pos > tool_run.social.neg
        /\ tool_run.section[2] = "Bearish community sentiment"
              <=> tool_run.social.neg > tool_run.social.pos
        /\ tool_run.section[2] = "Neutral community sentiment"
              <=> tool_run.social.neg = tool_run.social.pos

\* what the code does instead: the summary of every successful result
\* holds the word "Positive", so the line is always the bullish one
C28_AlwaysBullish ==
    (tool_run.fn = "generate_simple_charts" /\ tool_run.social.status = "success") =>
        tool_run.section[2] = "Bullish community sentiment"

\* ---------------------------------------------------------------------
\* The advice of two bundles of one token
\* ---------------------------------------------------------------------

\* what the provider may hold for 7d and for 30d in the comparison of two
\* bundles: an outflow with a profitable-investor inflow, and a failure
OtherTimeframeScripts ==
    {TimeframeScript(Always("200"), "entry", -3, NoNumber, Number(7)),
     TimeframeScript(Always("timeout"), "entry", 3, NoNumber, NoNumber)}

\* a provider holding the given scripts for the three timeframes
ProviderOf(day, week, month) ==
    [tf \in {"1d", "7d", "30d"} |->
        CASE tf = "1d" -> day [] tf = "7d" -> week [] tf = "30d" -> month]

\* the providers of the two bundles that are compared
ProviderPairs ==
    {<<ProviderOf(d1, w1, m1), ProviderOf(d2, w2, m2)>> :
        d1 \in TimeframeScripts, d2 \in TimeframeScripts,
        w1 \in OtherTimeframeScripts, m1 \in OtherTimeframeScripts,
        w2 \in OtherTimeframeScripts, m2 \in OtherTimeframeScripts}

\* get_token_smart_money_flow(chain, token_address) called for the same
\* token against two states of the provider
CallTokenFlowTwice(chain, token_address, first, second) ==
    /\ tool_run.fn = "none"
    /\ tool_run' = [fn |-> "get_token_smart_money_flow twice", first |-> first,
                    second |-> second,
                    done |-> <<get_token_smart_money_flow_data(
                                   chain, token_address, first, "flow"),
                               get_token_smart_money_flow_data(
                                   chain, token_address, second, "flow")>>]
    /\ ToolUnchanged

\* the three flows _fetch_nansen_flow_intelligence reads from what the
\* provider holds for 24h
DayFlows(provider) ==
    LET f == fetch_nansen_flow_intelligence_data(
                 "ethereum", "0x6982508145454ce325ddbe47a25d4ec3d2311933", provider["1d"])
    IN  <<f.netflow_usd, f.profitable_trader_flow, f.profitable_investor_flow>>

\* C29: two bundles of get_token_smart_money_flow whose 24h netflow and 24h
\* profitable-trader and profitable-investor flows agree carry the same
\* advice, whatever their 7d and 30d entries are
C29_AdviceReadsOnlyTheDay ==
    (tool_run.fn = "get_token_smart_money_flow twice"
     /\ DayFlows(tool_run.first) = DayFlows(tool_run.second)) =>
        tool_run.done[1].advice = tool_run.done[2].advice

\* two bundles agree on a 24h inflow with a profitable-trader outflow, differ
\* in 7d and in 30d, and carry the same non-empty advice
C29_Witness ==
    /\ tool_run.fn = "get_token_smart_money_flow twice"
    /\ DayFlows(tool_run.first) = <<Number(3), Number(-5), NoNumber>>
    /\ DayFlows(tool_run.second) = DayFlows(tool_run.first)
    /\ tool_run.done[1].flows[2].status # tool_run.done[2].flows[2].status
    /\ tool_run.done[1].flows[3].status # tool_run.done[2].flows[3].status
    /\ tool_run.done[1].advice = tool_run.done[2].advice
    /\ tool_run.done[1].advice
         = "Smart money is accumulating (buying) this token. Profitable traders are selling."

\* ---------------------------------------------------------------------
\* extract_intents_and_coins called on its own
\* ---------------------------------------------------------------------

\* the utterances the extractor is called with: those of the turns and some
\* whose words of three letters or more are stopwords or intent words
ExtractUtterances ==
    Utterances
    \cup {"the price of bitcoin", "should i sell", "should i hold the",
          "what about the", "should i buy the dip", "how is the price"}

CallExtract(utterance) ==
    /\ tool_run.fn = "none"
    /\ tool_run' = [fn |-> "extract_intents_and_coins", utterance |-> utterance,
                    done |-> extract_intents_and_coins(utterance)]
    /\ ToolUnchanged

\* C23: for "price of $BTC and sentiment for $ETH" the pairs contain
\* (PRICE, btc) and (SENTIMENT, eth), and no intent is paired with the coin
\* of the other segment: neither (PRICE, eth) nor (SENTIMENT, btc)
C23_PairsStayInTheirSegment ==
    (tool_run.fn = "extract_intents_and_coins"
     /\ tool_run.utterance = "price of $BTC and sentiment for $ETH") =>
        /\ <<"PRICE", "btc">> \in tool_run.done.pairs
        /\ <<"SENTIMENT", "eth">> \in tool_run.done.pairs
        /\ <<"PRICE", "eth">> \notin tool_run.done.pairs
        /\ <<"SENTIMENT", "btc">> \notin tool_run.done.pairs

\* what the code returns for the utterance: every found intent with every
\* found coin
C23_FullProduct ==
    (tool_run.fn = "extract_intents_and_coins"
     /\ tool_run.utterance = "price of $BTC and sentiment for $ETH") =>
        tool_run.done.pairs = {"PRICE", "SENTIMENT"} \X {"btc", "eth"}

\* C24: no pair returned for any utterance has a stopword or an intent
\* word as its coin
C24_NoStopwordIsACoin ==
    tool_run.fn = "extract_intents_and_coins" =>
        \A p \in tool_run.done.pairs : p[2] \notin stopwords \cup intent_words

\* the fetchers called so far in the turn
FetchersCalled == {calls[k].fetcher : k \in DOMAIN calls}

\* C26: for "how is solana doing" the extractor yields the coin solana, and
\* no other coin, with the intent GENERAL, and the turn resolves that coin
\* and ends with a non-empty text, after the market, flow and sentiment
\* fetches when it ends with an analysis or a data summary
C26_SolanaGeneralTurn ==
    (mode = "cli" /\ user_input = "how is solana doing" /\ extraction # NoExtraction) =>
        /\ Range(extraction.pairs) = {<<"GENERAL", "solana">>}
        /\ TurnEnded =>
              /\ \E k \in DOMAIN calls :
                    calls[k].fn = "search_coin_id" /\ calls[k].coin = "solana"
              /\ output.text # ""
              /\ output.kind \in {"analysis", "summary"} =>
                    {"Resolver", "Market", "Flow", "Sentiment"} \subseteq FetchersCalled

\* what the turn does instead: classify_intent reads the leading "how" as
\* small talk, so the turn is answered by handle_conversation and no coin
\* is resolved or fetched
C26_AnsweredAsConversation ==
    (mode = "cli" /\ user_input = "how is solana doing" /\ TurnEnded) =>
        /\ output.kind = "conversation"
        /\ FetchersCalled = {"LLM"}

\* C25: a turn for which the extractor reports a request for advice and
\* which ends with a data response written by the program (the joined
\* reports, or the data summary shown when the completion fails) carries
\* the not-financial-advice disclaimer
C25_AdviceTurnsCarryTheDisclaimer ==
    (mode = "cli" /\ TurnEnded /\ extraction.advice
     /\ output.kind \in {"summary", "focused"}) =>
        Contains(output.text, disclaimer)


(***************************************************************************)
(* The specification of the tool functions called on their own             *)
(***************************************************************************)
ToolInit == Init /\ mode = "cli"

\* no function has been called yet
Idle == tool_run.fn = "none"

ToolNext ==
    \/ Idle /\ \E max_retries \in 0..DefaultMaxRetries :
               \E func \in [1..(max_retries + 1) -> Outcomes] : CallRetry(func, max_retries)
    \/ Idle /\ \E query \in Queries : \E answers \in AnswerScripts :
               CallSearchCoinId(query, answers)
    \/ Idle /\ \E id \in CoinIds : \E answers \in AnswerScripts :
               CallGetCoinDetails(id, answers)
    \/ Idle /\ \E target \in FlowTargets : \E answers \in AnswerScripts :
               CallFlowIntelligence(target[1], target[2], answers)
    \/ Idle /\ \E query \in RankQueries : \E coins \in CandidateLists :
               CallRankedCoinId(query, coins)
    \/ Idle /\ \E query \in RankQueries : \E coins \in CandidateLists :
               CallResolveTwice(query, coins)
    \/ Idle /\ \E native \in NativeCoinIds : \E reply \in FlowAnswers :
               CallNativeFlow(native, reply)
    \/ Idle /\ \E target \in TokenTargets : \E provider \in Providers :
               CallTokenFlow(target[1], target[2], provider, target[3])
    \/ Idle /\ \E data \in AnalysisInputs : CallAnalysis(data)
    \/ Idle /\ \E id \in KnownCoinIds : \E surface \in {"cli", "api"} : \E r \in FlowEnv :
               CallFlowLookup(id, surface, r)

    \/ Idle /\ \E fetched_tweets \in PostLists : CallAnalysePosts(fetched_tweets)
    \/ Idle /\ \E max_tweets \in 1..MaxTweets : \E script \in PageScripts :
               CallCollectTweets(max_tweets, script)
    \/ Idle /\ \E fetched_tweets \in PostLists : CallSentimentChart(fetched_tweets)
    \/ Idle /\ \E pair \in ProviderPairs :
               CallTokenFlowTwice("ethereum", "0x6982508145454ce325ddbe47a25d4ec3d2311933",
                                  pair[1], pair[2])
    \/ Idle /\ \E utterance \in ExtractUtterances : CallExtract(utterance)
ToolSpec == ToolInit /\ [][ToolNext]_vars

============================================================================
